---- MODULE Spec2Model ----
(***************************************************************************)
(* Model of cachu's memoization protocol (decorator.py, sync_wrapper and   *)
(* async_wrapper), the in-memory backend (backends/memory.py) and the      *)
(* process-local per-key mutex (mutex.py).                                 *)
(*                                                                         *)
(* Callers are threads (or tasks).  A re-entrant call made from inside the *)
(* wrapped computation runs on a free caller slot whose parent is the      *)
(* computing caller: threading.Lock and asyncio.Lock have no owner, so a   *)
(* nested call contends for the lock exactly like another caller, except   *)
(* that the parent's computation cannot finish before the nested call      *)
(* returns.                                                                *)
(***************************************************************************)
EXTENDS Integers, FiniteSets, Sequences, TLC

\* ---------------------------------------------------------------- bounds
\* calls of the memoized function started in a run
MaxCalls == 3
\* ticks of the clock in a run
MaxTime == 1

\* two concurrent callers, each making one call after another; two cache keys
\* (two argument sets of the memoized function)
Threads == {1, 2}
Keys == {1, 2}

\* ------------------------------------------------------- program constants
\* backends/__init__.py NO_VALUE: a sentinel that is no computed value
NO_VALUE == [k |-> 0, n |-> 0, kind |-> "none"]
\* Python's None, as the created_at of a read that found nothing
None == -1
\* decorator._MISSING, the default of get when none is supplied
MISSING == [k |-> 0, n |-> 0, kind |-> "missing"]
\* the defaults supplied to get: none, an explicit None, a value
Defaults ==
    {MISSING, [k |-> 0, n |-> 0, kind |-> "None"], [k |-> 0, n |-> 0, kind |-> "default"]}
\* a holder id that is no caller: the lock is free
Free == 0

\* ttl of the decorated function: 0 (expires at once), one tick, and a ttl
\* longer than the modelled time span (never expires in a run)
TTLs == {0, 1, MaxTime + 1}

VARIABLES
    cache,      \* MemoryBackend._cache: key -> [pickled_value, created_at, expires_at]
    lock,       \* ThreadingMutex._locks[key]: the holder, or Free
    stats,      \* CacheManager.stats[id(fn)]: [hits, misses]
    now,        \* time.time()
    cfg,        \* the decorator's arguments: [validate, cache_if, ttl, backend]
    th,         \* per caller: the wrapper's local variables and position
    ncalls,     \* number of calls of the memoized function started so far
    hist,       \* history per key (see Init)
    clr,        \* position of the caller of cache_clear
    backends,   \* CacheManager.backends: (package, type, ttl) -> instance
    gs,         \* history since the last statistics reset (see Init)
    mgr,        \* the registry lock and the stores of the instances (see Start)
    mx,         \* the mutex classes, their registries and handles (see MxStart)
    held,       \* the holders of the backend's table locks and of the stats lock
    tasks       \* the delete tasks the file backend has scheduled, per key

vars == <<cache, lock, stats, now, cfg, th, ncalls, hist, clr, backends, gs,
          mgr, mx, held, tasks>>

\* ------------------------------------------------------------ dict helpers
Put(c, k, e) == [x \in (DOMAIN c) \cup {k} |-> IF x = k THEN e ELSE c[x]]
Del(c, k) == [x \in (DOMAIN c) \ {k} |-> c[x]]
EmptyDict == [x \in {} |-> 0]

\* ------------------------------------------------------- MemoryBackend core
\* pickle.dumps and pickle.loads: the bytes of a value, and the value of
\* well-formed bytes
Dumps(v) == <<"pickle", v>>
CanLoad(b) == b[1] = "pickle"
Loads(b) == b[2]

\* bytes that pickle.loads rejects are <<"corrupt", e>>, e the exception it
\* raises for them
LoadError(b) == b[2]

\* the exceptions of pickle.loads that _do_get catches
Caught ==
    {"UnpicklingError", "EOFError", "TypeError", "AttributeError",
     "ModuleNotFoundError"}

\* exceptions of pickle.loads in the model: one that _do_get catches
\* (b'invalid pickle data') and one it does not (b'\x80g', an unsupported
\* protocol number)
LoadErrors == {"UnpicklingError", "ValueError"}

\* what a read hands back: a value with its creation time, or an exception
Found(v, at) == [value |-> v, created_at |-> at, exc |-> "none"]
NotFound == [value |-> NO_VALUE, created_at |-> None, exc |-> "none"]
Raised(e) == [value |-> NO_VALUE, created_at |-> None, exc |-> e]

\* _do_get with the entry already expired at the instant expires_at
DoGetResultEarlyExpiry(c, k, t) ==
    IF k \notin DOMAIN c THEN NotFound
    ELSE IF t >= c[k].expires_at THEN NotFound
    ELSE IF CanLoad(c[k].pickled_value)
    THEN Found(Loads(c[k].pickled_value), c[k].created_at)
    ELSE IF LoadError(c[k].pickled_value) \in Caught THEN NotFound
    ELSE Raised(LoadError(c[k].pickled_value))

\* _do_get: the (value, created_at) pair returned, or the exception of
\* pickle.loads that the except clause does not name
DoGetResult(c, k, t) ==
    IF k \notin DOMAIN c THEN NotFound
    ELSE IF t > c[k].expires_at THEN NotFound
    ELSE IF CanLoad(c[k].pickled_value)
    THEN Found(Loads(c[k].pickled_value), c[k].created_at)
    ELSE IF LoadError(c[k].pickled_value) \in Caught THEN NotFound
    ELSE Raised(LoadError(c[k].pickled_value))

\* a read that leaves an expired entry in the table
DoGetCacheKeep(c, k, t) == c

\* a read that restarts the lifetime of the entry it finds
DoGetCacheSliding(c, k, t) ==
    IF k \notin DOMAIN c THEN c
    ELSE IF t > c[k].expires_at THEN Del(c, k)
    ELSE Put(c, k, [c[k] EXCEPT !.created_at = t,
                                !.expires_at = t + (c[k].expires_at - c[k].created_at)])

\* _do_get: the table it leaves (an expired entry, and an entry whose bytes
\* raise a caught exception, is deleted by the read)
DoGetCache(c, k, t) ==
    IF k \notin DOMAIN c THEN c
    ELSE IF t > c[k].expires_at THEN Del(c, k)
    ELSE IF CanLoad(c[k].pickled_value) THEN c
    ELSE IF LoadError(c[k].pickled_value) \in Caught THEN Del(c, k)
    ELSE c

\* SqliteBackend.get / get_with_metadata: the result (every exception of
\* pickle.loads is answered with NO_VALUE)
SqliteGetResult(c, k, t) ==
    IF k \notin DOMAIN c THEN NotFound
    ELSE IF t > c[k].expires_at THEN NotFound
    ELSE IF CanLoad(c[k].pickled_value)
    THEN Found(Loads(c[k].pickled_value), c[k].created_at)
    ELSE NotFound

\* SqliteBackend.get / get_with_metadata: the rows they leave (the expired
\* row is deleted; the except clause deletes nothing)
SqliteGetCache(c, k, t) ==
    IF k \in DOMAIN c /\ t > c[k].expires_at THEN Del(c, k) ELSE c

\* --------------------------------------------- decorated functions, keys
\* the memoized functions of the manager-level model: @cache(ttl=...,
\* backend=..., tag=..., package=...); dynamic, ttl is a callable (whose
\* result is the ttl field)
Fn(name, tag, pkg, backend, ttl, dynamic) ==
    [name |-> name, tag |-> tag, pkg |-> pkg, backend |-> backend,
     ttl |-> ttl, dynamic |-> dynamic]

Fns ==
    << Fn("get_user", "users", "p", "memory", 60, FALSE),
       Fn("get_product", "products", "p", "memory", 60, FALSE),
       Fn("get_item", "", "p", "memory", 60, FALSE),
       Fn("get_order", "users", "p", "file", 90, FALSE),
       Fn("compute_a", "", "q", "memory", 60, TRUE),
       Fn("compute_b", "", "q", "memory", 90, TRUE) >>

\* the calls made of them: <<function, argument>>
FnCalls ==
    << <<1, "1">>, <<2, "1">>, <<2, "a|users|b">>, <<3, "1">>,
       <<3, "a|users|b">>, <<4, "1">>, <<5, "1">>, <<6, "1">> >>

\* ttl_for_backend = -1 if callable(ttl) else ttl
TtlForBackend(f) == IF f.dynamic THEN -1 ELSE f.ttl

\* the ttl region at the head of a key
Region(ttl) ==
    IF ttl < 0 THEN "dyn" ELSE IF ttl < 3600 THEN "1m" ELSE "1h"

\* the rendering of the argument x of a call, in tokens
ArgStr(a) ==
    IF a = "a|users|b" THEN <<"x=a", "|", "users", "|", "b">> ELSE <<"x=", a>>

\* the cache key of a call, in tokens:
\* <region>:<function>||<tag>||<arguments>, <region>:<function>||<arguments>
\* without a tag
FnKey(f, a) ==
    <<Region(TtlForBackend(f)), ":", f.name, "|">>
    \o (IF f.tag = "" THEN <<>> ELSE <<"|", f.tag, "|">>)
    \o <<"|">> \o ArgStr(a)

\* pattern = f'*|{tag}|*' if tag else None
TagToPattern(tag) ==
    IF tag = "" THEN <<"None">> ELSE <<"*", "|", tag, "|", "*">>

\* the key strings of the two keys, and the patterns clear is called with,
\* as sequences of characters; NoPattern is pattern=None
KeyStr ==
    << <<"u", ":", "1">>, <<"o", ":", "1">> >>
    \o [i \in 1..Len(FnCalls) |-> FnKey(Fns[FnCalls[i][1]], FnCalls[i][2])]
    \* keys with an upper-case letter, with the characters of a list
    \* argument, and with a star and a question mark of their own
    \o << <<"U", ":", "1">>, <<"u", ":", "[", "1", "]">>, <<"u", "*", "1">>,
          <<"u", ":", "?">> >>
NoPattern == <<"None">>
Patterns ==
    {NoPattern, <<"u", ":", "*">>, <<"*">>, <<"?", ":", "1">>,
     <<"*", ":", "2">>, <<"o", "*", "1">>, <<"u", ":">>}

\* a character class at the head of pattern p, [seq] or its negation, neg
\* the character that negates ("!" for fnmatch, "^" for GLOB): the first
\* position of its members, and the position of the ] that closes it (a ]
\* that comes first is a member), 0 if nothing closes it
ClassStart(p, neg) == IF Len(p) >= 2 /\ p[2] = neg THEN 3 ELSE 2
ClassEnd(p, neg) ==
    LET j0 == ClassStart(p, neg)
        j1 == IF Len(p) >= j0 /\ p[j0] = "]" THEN j0 + 1 ELSE j0
        closing == {j \in j1..Len(p) : p[j] = "]"}
    IN IF closing = {} THEN 0
       ELSE CHOOSE j \in closing : \A i \in closing : j <= i
InClass(c, p, neg) ==
    LET in == \E j \in ClassStart(p, neg)..(ClassEnd(p, neg) - 1) : p[j] = c
    IN IF ClassStart(p, neg) = 3 THEN ~in ELSE in

\* os.path.normcase of posixpath, which fnmatch.fnmatch applies to the name
\* and the pattern: the string as it is
Normcase(s) == s

\* fnmatch.fnmatchcase(s, p): * for any run of characters, ? for one, [seq]
\* and [!seq] for one character in or not in seq (ranges are not modelled), a
\* [ that nothing closes for itself
RECURSIVE Fnmatchcase(_, _)
Fnmatchcase(s, p) ==
    IF p = <<>> THEN s = <<>>
    ELSE IF Head(p) = "*"
    THEN Fnmatchcase(s, Tail(p)) \/ (s # <<>> /\ Fnmatchcase(Tail(s), p))
    ELSE IF Head(p) = "[" /\ ClassEnd(p, "!") # 0
    THEN /\ s # <<>>
         /\ InClass(Head(s), p, "!")
         /\ Fnmatchcase(Tail(s), SubSeq(p, ClassEnd(p, "!") + 1, Len(p)))
    ELSE /\ s # <<>>
         /\ Head(p) = "?" \/ Head(p) = Head(s)
         /\ Fnmatchcase(Tail(s), Tail(p))

\* fnmatch.fnmatch(s, p)
Fnmatch(s, p) == Fnmatchcase(Normcase(s), Normcase(p))

\* key GLOB p of SQLite: * stands for some suffix split, ? for one
\* character, [seq] and [^seq] for one character in or not in seq; a [ that
\* nothing closes matches nothing
RECURSIVE Glob(_, _)
Glob(s, p) ==
    IF p = <<>> THEN s = <<>>
    ELSE IF Head(p) = "*"
    THEN \E i \in 0..Len(s) : Glob(SubSeq(s, i + 1, Len(s)), Tail(p))
    ELSE IF s = <<>> THEN FALSE
    ELSE IF Head(p) = "["
    THEN /\ ClassEnd(p, "^") # 0
         /\ InClass(Head(s), p, "^")
         /\ Glob(Tail(s), SubSeq(p, ClassEnd(p, "^") + 1, Len(p)))
    ELSE IF Head(p) = "?" \/ Head(p) = Head(s) THEN Glob(Tail(s), Tail(p))
    ELSE FALSE

\* a conversion to the wildcards of LIKE
FnmatchToLike(p) ==
    [i \in DOMAIN p |-> IF p[i] = "*" THEN "%" ELSE IF p[i] = "?" THEN "_" ELSE p[i]]

\* _fnmatch_to_glob
FnmatchToGlob(p) == p

\* a clear that takes every pattern for None
DoClearKeysAll(c, p) == DOMAIN c

\* _do_clear: the keys it deletes
DoClearKeys(c, p) ==
    IF p = NoPattern THEN DOMAIN c
    ELSE {k \in DOMAIN c : Fnmatch(KeyStr[k], p)}

\* SqliteBackend.clear: the rows DELETE FROM cache [WHERE key GLOB ?] deletes
SqliteClearKeys(c, p) ==
    IF p = NoPattern THEN DOMAIN c
    ELSE {k \in DOMAIN c : Glob(KeyStr[k], FnmatchToGlob(p))}

\* _do_keys: the keys it returns, and the table it leaves (every expired
\* entry is popped, whatever the pattern)
DoKeys(c, p, t) ==
    {k \in DOMAIN c :
        /\ ~(t > c[k].expires_at)
        /\ p = NoPattern \/ Fnmatch(KeyStr[k], p)}
DoKeysCache(c, t) ==
    [k \in {x \in DOMAIN c : ~(t > c[x].expires_at)} |-> c[k]]

\* SqliteBackend.keys and count: the rows of SELECT key FROM cache WHERE
\* [key GLOB ? AND] expires_at > ?
SqliteKeys(c, p, t) ==
    {k \in DOMAIN c :
        /\ c[k].expires_at > t
        /\ p = NoPattern \/ Glob(KeyStr[k], FnmatchToGlob(p))}

\* a set that stores the ttl itself as the expiry time
DoSetAbsolute(c, k, v, ttl, t) ==
    Put(c, k, [pickled_value |-> Dumps(v), created_at |-> t, expires_at |-> ttl])

\* _do_set
DoSet(c, k, v, ttl, t) ==
    Put(c, k, [pickled_value |-> Dumps(v), created_at |-> t, expires_at |-> t + ttl])

\* a delete that empties the table
DoDeleteAll(c, k) == EmptyDict

\* _do_delete
DoDelete(c, k) == Del(c, k)

\* the validate callbacks of the model, applied to CacheEntry(value,
\* created_at, age): always True, always False, True for an entry of age 0
Validate(validate, value, created_at, age) ==
    CASE validate = "accept" -> TRUE
      [] validate = "reject" -> FALSE
      [] validate = "fresh" -> age = 0

\* a wrapper that never consults the validate callback
ValidateEntryIgnored(value, created_at, validate, t) == TRUE

\* _validate_entry, called at time t
ValidateEntry(value, created_at, validate, t) ==
    IF validate = "none" \/ created_at = None THEN TRUE
    ELSE Validate(validate, value, created_at, t - created_at)

\* value is not NO_VALUE and _validate_entry(value, created_at, validate)
IsHit(r, validate, t) ==
    r.value # NO_VALUE /\ ValidateEntry(r.value, r.created_at, validate, t)

\* a record_hit whose increment is lost
RecordHitLost(s) == s

\* CacheManager.record_hit / record_miss
RecordHit(s) == [s EXCEPT !.hits = @ + 1]
RecordMiss(s) == [s EXCEPT !.misses = @ + 1]

\* ------------------------------------------------------------------- Init
Config(v, c, ttl) ==
    [validate |-> v, cache_if |-> c, ttl |-> ttl, backend |-> "memory",
     ttl_is_callable |-> FALSE]

\* @cache(ttl=..., validate=..., cache_if=...): the plain decorator, and each
\* argument varied on its own
Configs ==
    {Config(v, "none", MaxTime + 1) : v \in {"none", "accept", "reject", "fresh"}}
    \cup {Config("none", "pred", MaxTime + 1)}
    \cup {Config("none", "none", ttl) : ttl \in TTLs}

\* _do_get's entry before the table is read
NoEntry == [pickled_value |-> Dumps(NO_VALUE), created_at |-> None, expires_at |-> None]

IdleCaller ==
    [pc |-> "idle", key |-> 1, ow |-> FALSE, acq |-> FALSE, val |-> NO_VALUE,
     res |-> "none", parent |-> 0,
     \* history of the call: answered from the cache, acquire timed out,
     \* misses recorded, invocations of the computation
     hit |-> FALSE, tmo |-> FALSE, miss |-> 0, inv |-> 0,
     \* the key was invalidated while this call was computing
     inval |-> FALSE,
     \* the entry point used: "call", or a helper of the wrapper
     op |-> "call",
     \* for a helper that started with no other call of its key in flight:
     \* the number of calls of the key started up to then (0 otherwise)
     n0 |-> 0,
     \* the value argument of a helper (the default of get)
     arg |-> NO_VALUE,
     \* the created_at a direct get_with_metadata returned
     created_at |-> None,
     \* the pattern a direct clear was called with
     pattern |-> NoPattern,
     \* get_backend: the (package, type, ttl) asked for, the instance returned
     bkey |-> <<"", "", 0>>, inst |-> 0,
     \* the callback or backend operation of the guarded section that raised
     exc |-> "",
     \* a backend operation by steps: the interface it came through ("sync"
     \* or "async") and the tuple _do_get read from the table
     path |-> "", entry |-> NoEntry,
     \* the keys a direct keys() yielded
     keys |-> {},
     \* get_backend by steps: the instance this caller constructed
     made |-> 0]

\* history of a key: dist, an event after which the key may have to be
\* recomputed has happened (expiry, invalidation, overwrite request, cache_if
\* or validate rejection); raised, a computation for it raised; inv, number
\* of invocations by the protocol; tmo, number of timed out acquisitions; n,
\* number of protocol calls started; set, the value of the last completed
\* set and its time (NO_VALUE after a delete)
NoHistory ==
    [dist |-> FALSE, raised |-> FALSE, inv |-> 0, tmo |-> 0, n |-> 0,
     set |-> [v |-> NO_VALUE, at |-> 0]]

\* cache_clear(tag=None, backend=None, ttl=None, package=...)
NoBackend == "None"
NoTtl == -2
Request(tag, backend, ttl, pkg) ==
    [tag |-> tag, backend |-> backend, ttl |-> ttl, pkg |-> pkg]
NoRequest == Request("", NoBackend, NoTtl, "")

\* the handles and the key strings of mutexes used directly
Handles == {1, 2, 3}
MKeys == {"a", "b"}

\* a mutex handle before its constructor has run
NoHandle ==
    [pc |-> "none", key |-> "", lock |-> 0, acquired |-> FALSE, ret |-> "none",
     seen |-> FALSE]

\* the mutex class in use with its class attributes and the handles:
\* cls, the class ("none": mutexes are only used by protocol calls);
\* sched, "threads" when the users of the handles are threads, "loop" when
\* they are coroutines of one event loop, which run up to their next await;
\* locks, the registry _locks (key -> lock object); created, the number of
\* lock objects made so far; rl, the holder of _registry_lock; locked, the
\* lock objects that are locked; redis, the keys of the Redis server with
\* their values; h, the handles
MxStart(cls, sched) ==
    [cls |-> cls, sched |-> sched, locks |-> EmptyDict, created |-> 0,
     rl |-> Free, locked |-> {}, redis |-> EmptyDict,
     h |-> [x \in Handles |-> NoHandle]]

StartCore ==
    /\ cache = EmptyDict
    \* MemoryBackend._sync_lock, MemoryBackend._async_lock and
    \* CacheManager._stats_lock, all free
    /\ held = [sync_lock |-> Free, async_lock |-> Free, stats_lock |-> Free]
    \* no task created by _schedule_async_delete is waiting to run
    /\ tasks = [k \in Keys |-> 0]
    /\ lock = [k \in Keys |-> Free]
    /\ stats = [hits |-> 0, misses |-> 0]
    /\ now = 0
    /\ th = [t \in Threads |-> IdleCaller]
    /\ ncalls = 0
    /\ hist = [k \in Keys |-> NoHistory]
    /\ clr = "idle"
    /\ backends = EmptyDict
    \* lock, the holder of CacheManager._sync_lock; stores, the table behind
    \* each storage location (a MemoryBackend's dict, a database file)
    \* stats, CacheManager.stats of the functions Fns; req, the arguments of
    \* the cache_clear in progress, made, whether it constructed an
    \* instance, and total_cleared, its count of removed entries
    /\ mgr = [lock |-> Free, stores |-> EmptyDict, stats |-> EmptyDict,
              req |-> NoRequest, made |-> FALSE, total_cleared |-> 0,
              \* the holder of CacheManager._async_lock
              alock |-> Free]
    \* hits, calls answered from the cache; inv, invocations by the protocol;
    \* racy, the statistics were reset while a call was in flight
    /\ gs = [hits |-> 0, inv |-> 0, racy |-> FALSE]

Start == StartCore /\ mx = MxStart("none", "threads")

Init ==
    /\ Start
    /\ cfg \in Configs

\* the instances of a registry, and an instance that is none of them
Instances(bs) == {bs[x] : x \in DOMAIN bs}
NewInstance(bs) ==
    CHOOSE i \in 1..(Cardinality(DOMAIN bs) + 1) :
        /\ i \notin Instances(bs)
        /\ \A j \in 1..(i - 1) : j \in Instances(bs)

\* CacheManager.get_backend: the instance for (package, backend type, ttl) is
\* looked up and constructed if it is not there
BackendKey ==
    <<"p", cfg.backend, IF cfg.ttl_is_callable THEN -1 ELSE cfg.ttl>>
GetBackendFor(bs, key) ==
    IF key \in DOMAIN bs THEN bs ELSE Put(bs, key, NewInstance(bs))

GetBackend(bs) == GetBackendFor(bs, BackendKey)

Disturb(h, k, b) == [h EXCEPT ![k].dist = @ \/ b]

\* a caller whose computation is running a nested call of the memoized function
HasChild(t) ==
    \E c \in Threads : th[c].pc \notin {"idle", "returned"} /\ th[c].parent = t

\* --------------------------------------------------- sync_wrapper, by step
\* a wrapper that looks the backend up before it checks for the bypass
CallLookupFirst(t, k, skip, ow, p) ==
    /\ th[t].pc = "idle"
    /\ ncalls < MaxCalls
    /\ IF p = 0 THEN TRUE ELSE p # t /\ th[p].pc \in {"computing", "bypass"}
    /\ ncalls' = ncalls + 1
    /\ backends' = GetBackend(backends)
    /\ IF skip
       THEN /\ th' = [th EXCEPT ![t] = [IdleCaller EXCEPT
                        !.pc = "bypass", !.key = k, !.parent = p, !.inv = 1,
                        !.op = "bypass"]]
            /\ hist' = hist
       ELSE /\ th' = [th EXCEPT ![t] = [IdleCaller EXCEPT
                        !.pc = IF ow THEN "acquire" ELSE "fast",
                        !.key = k, !.ow = ow, !.parent = p]]
            /\ hist' = [Disturb(hist, k, ow) EXCEPT ![k].n = @ + 1]
    /\ UNCHANGED <<tasks, held, mx, mgr, clr, cache, lock, stats, now, cfg, gs>>

\* lines 440-450: pop the reserved kwargs, bypass or derive the key
Call(t, k, skip, ow, p) ==
    /\ th[t].pc = "idle"
    /\ ncalls < MaxCalls
    /\ IF p = 0 THEN TRUE ELSE p # t /\ th[p].pc \in {"computing", "bypass"}
    /\ ncalls' = ncalls + 1
    /\ IF skip
       THEN /\ th' = [th EXCEPT ![t] = [IdleCaller EXCEPT
                        !.pc = "bypass", !.key = k, !.parent = p, !.inv = 1,
                        !.op = "bypass"]]
            /\ hist' = hist
            /\ backends' = backends
       ELSE /\ th' = [th EXCEPT ![t] = [IdleCaller EXCEPT
                        !.pc = IF ow THEN "acquire" ELSE "fast",
                        !.key = k, !.ow = ow, !.parent = p]]
            /\ hist' = [Disturb(hist, k, ow) EXCEPT ![k].n = @ + 1]
            /\ backends' = GetBackend(backends)
    /\ UNCHANGED <<tasks, held, mx, mgr, clr, cache, lock, stats, now, cfg, gs>>

\* wrapper.original(*args, **kwargs): original_fn is entered directly
Original(t, k) ==
    /\ th[t].pc = "idle"
    /\ ncalls < MaxCalls
    /\ ncalls' = ncalls + 1
    /\ th' = [th EXCEPT ![t] = [IdleCaller EXCEPT
                    !.pc = "bypass", !.key = k, !.inv = 1, !.op = "original"]]
    /\ UNCHANGED <<tasks, held, mx, mgr, backends, clr, cache, lock, stats, now, cfg, hist, gs>>

\* line 444: the bypassed computation returns or raises
BypassReturn(t, raise) ==
    /\ th[t].pc = "bypass"
    /\ ~HasChild(t)
    /\ th' = [th EXCEPT ![t].pc = "returned",
                        ![t].res = IF raise THEN "raise" ELSE "pos",
                        ![t].val = [k |-> th[t].key, n |-> 0,
                                    kind |-> IF raise THEN "raise" ELSE "pos"]]
    /\ UNCHANGED <<tasks, held, mx, mgr, backends, clr, cache, lock, stats, now, cfg, ncalls, hist, gs>>

\* whether a read of key k at the current time finds the entry expired or
\* has it rejected by validate
ReadDisturbs(k) ==
    LET r == DoGetResult(cache, k, now) IN
    \/ k \in DOMAIN cache /\ now > cache[k].expires_at
    \/ r.value # NO_VALUE /\ ~IsHit(r, cfg.validate, now)

\* a wrapper that takes the mutex before it answers from the cache
FastReadLocked(t) ==
    /\ th[t].pc = "fast"
    /\ LET k == th[t].key IN
       /\ cache' = DoGetCache(cache, k, now)
       /\ hist' = Disturb(hist, k, ReadDisturbs(k))
       /\ th' = [th EXCEPT ![t].pc = "acquire"]
    /\ UNCHANGED <<tasks, held, mx, mgr, backends, clr, lock, stats, now, cfg, ncalls, gs>>

\* lines 452-457: the fast-path read
FastRead(t) ==
    /\ th[t].pc = "fast"
    /\ LET k == th[t].key
           r == DoGetResult(cache, k, now)
       IN /\ cache' = DoGetCache(cache, k, now)
          /\ hist' = Disturb(hist, k, ReadDisturbs(k))
          /\ th' = IF IsHit(r, cfg.validate, now)
                   THEN [th EXCEPT ![t].pc = "hit", ![t].val = r.value]
                   ELSE [th EXCEPT ![t].pc = "acquire"]
    /\ UNCHANGED <<tasks, held, mx, mgr, backends, clr, lock, stats, now, cfg, ncalls, gs>>

\* lines 456-457: record_hit, return value
HitReturn(t) ==
    /\ th[t].pc = "hit"
    /\ stats' = RecordHit(stats)
    /\ gs' = [gs EXCEPT !.hits = @ + 1]
    /\ th' = [th EXCEPT ![t].pc = "returned", ![t].hit = TRUE, ![t].res = "pos"]
    /\ UNCHANGED <<tasks, held, mx, mgr, backends, clr, cache, lock, now, cfg, ncalls, hist>>

\* a guarded section that always starts with the re-check
AfterAcquireRecheck(t) == "recheck"

\* where the guarded section starts: the re-check unless overwriting
AfterAcquire(t) == IF th[t].ow THEN "miss" ELSE "recheck"

\* one lock shared by all keys
GetMutexShared(k) == 1

\* MemoryBackend.get_mutex: the lock registered for the key
GetMutex(k) == k

\* an acquire that does not exclude a second holder
AcquireUnguarded(t) ==
    /\ th[t].pc = "acquire"
    /\ lock' = [lock EXCEPT ![GetMutex(th[t].key)] = t]
    /\ th' = [th EXCEPT ![t].pc = AfterAcquire(t), ![t].acq = TRUE]
    /\ UNCHANGED <<tasks, held, mx, mgr, backends, clr, cache, stats, now, cfg, ncalls, hist, gs>>

\* lines 459-460, ThreadingMutex.acquire: the lock is free and is taken
Acquire(t) ==
    /\ th[t].pc = "acquire"
    /\ lock[GetMutex(th[t].key)] = Free
    /\ lock' = [lock EXCEPT ![GetMutex(th[t].key)] = t]
    /\ th' = [th EXCEPT ![t].pc = AfterAcquire(t), ![t].acq = TRUE]
    /\ UNCHANGED <<tasks, held, mx, mgr, backends, clr, cache, stats, now, cfg, ncalls, hist, gs>>

\* an acquire without a timeout: it waits until the lock is free
AcquireBlocking(t) ==
    /\ th[t].pc = "acquire"
    /\ FALSE
    /\ UNCHANGED vars

\* ThreadingMutex.acquire: the lock stayed held for the whole lock timeout
AcquireTimeout(t) ==
    /\ th[t].pc = "acquire"
    /\ lock[GetMutex(th[t].key)] # Free
    /\ th' = [th EXCEPT ![t].pc = AfterAcquire(t), ![t].acq = FALSE,
                        ![t].tmo = TRUE]
    /\ hist' = [hist EXCEPT ![th[t].key].tmo = @ + 1]
    /\ UNCHANGED <<tasks, held, mx, mgr, backends, clr, cache, lock, stats, now, cfg, ncalls, gs>>

\* a guarded section without the re-check
RecheckSkipped(t) ==
    /\ th[t].pc = "recheck"
    /\ th' = [th EXCEPT ![t].pc = "miss"]
    /\ UNCHANGED <<tasks, held, mx, mgr, backends, clr, cache, lock, stats, now, cfg, ncalls, hist, gs>>

\* lines 462-466: the re-check inside the guard
Recheck(t) ==
    /\ th[t].pc = "recheck"
    /\ LET k == th[t].key
           r == DoGetResult(cache, k, now)
       IN /\ cache' = DoGetCache(cache, k, now)
          /\ hist' = Disturb(hist, k, ReadDisturbs(k))
          /\ th' = IF IsHit(r, cfg.validate, now)
                   THEN [th EXCEPT ![t].pc = "hit2", ![t].val = r.value]
                   ELSE [th EXCEPT ![t].pc = "miss"]
    /\ UNCHANGED <<tasks, held, mx, mgr, backends, clr, lock, stats, now, cfg, ncalls, gs>>

\* lines 465-466: record_hit inside the guard, then the finally clause
HitInGuard(t) ==
    /\ th[t].pc = "hit2"
    /\ stats' = RecordHit(stats)
    /\ th' = [th EXCEPT ![t].pc = "release", ![t].hit = TRUE, ![t].res = "pos"]
    /\ UNCHANGED <<tasks, held, mx, mgr, backends, clr, cache, lock, now, cfg, ncalls, hist, gs>>

\* line 468: record_miss
Miss(t) ==
    /\ th[t].pc = "miss"
    /\ stats' = RecordMiss(stats)
    /\ th' = [th EXCEPT ![t].pc = "invoke",
                        ![t].miss = @ + (stats'.misses - stats.misses)]
    /\ UNCHANGED <<tasks, held, mx, mgr, backends, clr, cache, lock, now, cfg, ncalls, hist, gs>>

\* line 469: the wrapped computation is entered; its result will be the
\* key's next value
Invoke(t) ==
    /\ th[t].pc = "invoke"
    /\ gs' = [gs EXCEPT !.inv = @ + 1]
    /\ hist' = [hist EXCEPT ![th[t].key].inv = @ + 1]
    /\ th' = [th EXCEPT ![t].pc = "computing", ![t].inv = @ + 1,
                        ![t].val = [k |-> th[t].key, n |-> hist[th[t].key].inv + 1,
                                    kind |-> "none"]]
    /\ UNCHANGED <<tasks, held, mx, mgr, backends, clr, cache, lock, stats, now, cfg, ncalls>>

\* line 469: a computation that never returns
Hang(t) ==
    /\ th[t].pc = "computing"
    /\ ~HasChild(t)
    /\ th' = [th EXCEPT ![t].pc = "hung"]
    /\ UNCHANGED <<tasks, held, mx, mgr, backends, clr, cache, lock, stats, now, cfg, ncalls, hist, gs>>

\* the cache_if predicate of the model: it accepts the results of kind "pos"
\* (such as lambda r: r > 0)
CacheIfPred(kind) == kind = "pos"

\* a wrapper that never consults the cache_if predicate
CacheIfIgnored(kind) == TRUE

\* line 471: cache_if is None or cache_if(result)
CacheIf(kind) == cfg.cache_if = "none" \/ CacheIfPred(kind)

\* the result of caller t's computation, once its kind is known
Result(t, kind) == [th[t].val EXCEPT !.kind = kind]

\* a ttl function of the result, as in lambda result: result.get(...): the
\* full ttl for a positive result, none for a negative one
TtlFn(r) == IF r.kind = "pos" THEN MaxTime + 1 ELSE 0

\* line 472: resolved_ttl = ttl(result) if ttl_is_callable else ttl
ResolvedTtl(r) == IF cfg.ttl_is_callable THEN TtlFn(r) ELSE cfg.ttl

\* a store that is dropped when the key was invalidated meanwhile
StoreFenced(t, kind) ==
    IF CacheIf(kind) /\ ~th[t].inval
    THEN DoSet(cache, th[t].key, Result(t, kind), ResolvedTtl(Result(t, kind)), now)
    ELSE cache

\* lines 471-473: the conditional store of caller t's result
Store(t, kind) ==
    IF CacheIf(kind)
    THEN DoSet(cache, th[t].key, Result(t, kind), ResolvedTtl(Result(t, kind)), now)
    ELSE cache

\* lines 469-476: the computation ends with a result of some kind or raises;
\* the result is stored if cache_if agrees
Finish(t, kind) ==
    /\ th[t].pc = "computing"
    /\ ~HasChild(t)
    /\ LET k == th[t].key IN
       /\ th' = [th EXCEPT ![t].pc = "release", ![t].res = kind,
                           ![t].val = Result(t, kind)]
       /\ IF kind = "raise"
          THEN /\ hist' = [hist EXCEPT ![k].raised = TRUE]
               /\ cache' = cache
          ELSE /\ cache' = Store(t, kind)
               /\ hist' = IF cfg.cache_if = "none" \/ kind = "pos"
                          THEN [hist EXCEPT ![k].set = [v |-> Result(t, kind), at |-> now]]
                          ELSE Disturb(hist, k, TRUE)
    /\ UNCHANGED <<tasks, held, mx, mgr, backends, clr, lock, stats, now, cfg, ncalls, gs>>

\* ThreadingMutex.release
MutexRelease(l, t) == [l EXCEPT ![GetMutex(th[t].key)] = Free]

\* a release in a finally clause that covers the computation only: an
\* exception of validate, cache_if, the ttl function or set skips it
ReleaseComputeOnly(t) ==
    /\ th[t].pc = "release"
    /\ lock' = IF th[t].acq /\ th[t].exc = ""
               THEN MutexRelease(lock, t) ELSE lock
    /\ gs' = IF th[t].hit THEN [gs EXCEPT !.hits = @ + 1] ELSE gs
    /\ th' = [th EXCEPT ![t].pc = "returned"]
    /\ UNCHANGED <<tasks, held, mx, mgr, backends, clr, cache, stats, now, cfg, ncalls, hist>>

\* a release that is skipped when the computation raised (no finally)
ReleaseOnSuccess(t) ==
    /\ th[t].pc = "release"
    /\ lock' = IF th[t].acq /\ th[t].res # "raise"
               THEN MutexRelease(lock, t) ELSE lock
    /\ gs' = IF th[t].hit THEN [gs EXCEPT !.hits = @ + 1] ELSE gs
    /\ th' = [th EXCEPT ![t].pc = "returned"]
    /\ UNCHANGED <<tasks, held, mx, mgr, backends, clr, cache, stats, now, cfg, ncalls, hist>>

\* lines 477-479: finally: release if acquired; then return or re-raise
Release(t) ==
    /\ th[t].pc = "release"
    /\ lock' = IF th[t].acq THEN MutexRelease(lock, t) ELSE lock
    /\ gs' = IF th[t].hit THEN [gs EXCEPT !.hits = @ + 1] ELSE gs
    /\ th' = [th EXCEPT ![t].pc = "returned"]
    /\ UNCHANGED <<tasks, held, mx, mgr, backends, clr, cache, stats, now, cfg, ncalls, hist>>

\* lines 462-464: the entry found by the re-check is handed to validate,
\* which raises; the finally clause is next
RaiseValidate(t) ==
    /\ th[t].pc = "recheck"
    /\ cfg.validate # "none"
    /\ LET k == th[t].key
           r == DoGetResult(cache, k, now)
       IN /\ r.value # NO_VALUE /\ r.created_at # None
          /\ cache' = DoGetCache(cache, k, now)
          /\ hist' = [Disturb(hist, k, TRUE) EXCEPT ![k].raised = TRUE]
          /\ th' = [th EXCEPT ![t].pc = "release", ![t].res = "raise",
                              ![t].exc = "validate"]
    /\ UNCHANGED <<tasks, held, mx, mgr, backends, clr, lock, stats, now, cfg, ncalls, gs>>

\* lines 469-473: the computation returned and cache_if, the ttl function or
\* backend.set raises: nothing is stored and the finally clause is next
RaiseAfterCompute(t, at) ==
    /\ th[t].pc = "computing"
    /\ ~HasChild(t)
    /\ at = "cache_if" => cfg.cache_if # "none"
    /\ th' = [th EXCEPT ![t].pc = "release", ![t].res = "raise",
                        ![t].val = Result(t, "pos"), ![t].exc = at]
    /\ hist' = [hist EXCEPT ![th[t].key].raised = TRUE]
    /\ UNCHANGED <<tasks, held, mx, mgr, backends, clr, cache, lock, stats, now, cfg, ncalls, gs>>

\* the caller goes on with the value (or the exception) it got
Done(t) ==
    /\ th[t].pc = "returned"
    /\ th' = [th EXCEPT ![t] = IdleCaller]
    /\ UNCHANGED <<tasks, held, mx, mgr, backends, clr, cache, lock, stats, now, cfg, ncalls, hist, gs>>

\* ------------------------------------------------------------- environment
\* the callers, with those computing for key k marked as invalidated
Invalidated(callers, k) ==
    [t \in Threads |->
        IF callers[t].pc = "computing" /\ callers[t].key = k
        THEN [callers[t] EXCEPT !.inval = TRUE] ELSE callers[t]]

\* wrapper.invalidate(**kwargs): backend.delete(cache_key)
Invalidate(k) ==
    /\ cache' = DoDelete(cache, k)
    /\ hist' = [Disturb(hist, k, TRUE) EXCEPT ![k].set = [v |-> NO_VALUE, at |-> 0]]
    /\ th' = Invalidated(th, k)
    /\ backends' = GetBackend(backends)
    /\ UNCHANGED <<tasks, held, mx, mgr, clr, lock, stats, now, cfg, ncalls, gs>>

\* caller t is in a call
InFlight(t) == th[t].pc \notin {"idle", "returned"}

\* some caller other than t is in a call for key k
Overlaps(t, k) ==
    \E u \in Threads \ {t} : InFlight(u) /\ th[u].key = k

\* a refresh that goes straight to the call, without invalidating
RefreshNoInvalidate(t, k) ==
    /\ th[t].pc = "idle"
    /\ ncalls < MaxCalls
    /\ ncalls' = ncalls + 1
    /\ hist' = [hist EXCEPT ![k].n = @ + 1]
    /\ th' = [th EXCEPT ![t] = [IdleCaller EXCEPT
                    !.pc = "fast", !.key = k, !.op = "refresh",
                    !.n0 = IF Overlaps(t, k) THEN 0 ELSE hist[k].n + 1]]
    /\ backends' = GetBackend(backends)
    /\ UNCHANGED <<tasks, held, mx, mgr, cache, clr, lock, stats, now, cfg, gs>>

\* wrapper.refresh(**kwargs): invalidate(**kwargs), then wrapper(**kwargs),
\* an ordinary call that starts with the fast-path read
Refresh(t, k) ==
    /\ th[t].pc = "idle"
    /\ ncalls < MaxCalls
    /\ ncalls' = ncalls + 1
    /\ cache' = DoDelete(cache, k)
    /\ hist' = [Disturb(hist, k, TRUE) EXCEPT ![k].set = [v |-> NO_VALUE, at |-> 0],
                                              ![k].n = @ + 1]
    /\ th' = [Invalidated(th, k) EXCEPT ![t] = [IdleCaller EXCEPT
                    !.pc = "fast", !.key = k, !.op = "refresh",
                    !.n0 = IF Overlaps(t, k) THEN 0 ELSE hist[k].n + 1]]
    /\ backends' = GetBackend(backends)
    /\ UNCHANGED <<tasks, held, mx, mgr, clr, lock, stats, now, cfg, gs>>

\* key k's entry is there and expired at time t
Expired(c, k, t) == k \in DOMAIN c /\ t > c[k].expires_at

\* a get that takes an explicit None default for no default
GetHelperNoneIsMissing(t, k, default) ==
    /\ th[t].pc = "idle"
    /\ LET value == DoGetResult(cache, k, now).value IN
       th' = [th EXCEPT ![t] = [IdleCaller EXCEPT
                !.pc = "returned", !.key = k, !.op = "get", !.arg = default,
                !.val = IF value # NO_VALUE THEN value ELSE default,
                !.res = IF value # NO_VALUE THEN "pos"
                        ELSE IF default.kind \in {"missing", "None"} THEN "KeyError"
                        ELSE "default"]]
    /\ cache' = DoGetCache(cache, k, now)
    /\ hist' = Disturb(hist, k, Expired(cache, k, now))
    /\ backends' = GetBackend(backends)
    /\ UNCHANGED <<tasks, held, mx, mgr, clr, lock, stats, now, cfg, ncalls, gs>>

\* wrapper.get(default, **kwargs) and cache_get: backend.get(cache_key), then
\* the value, the default, or KeyError
GetHelper(t, k, default) ==
    /\ th[t].pc = "idle"
    /\ LET value == DoGetResult(cache, k, now).value IN
       th' = [th EXCEPT ![t] = [IdleCaller EXCEPT
                !.pc = "returned", !.key = k, !.op = "get", !.arg = default,
                !.val = IF value # NO_VALUE THEN value ELSE default,
                !.res = IF value # NO_VALUE THEN "pos"
                        ELSE IF default = MISSING THEN "KeyError"
                        ELSE "default"]]
    /\ cache' = DoGetCache(cache, k, now)
    /\ hist' = Disturb(hist, k, Expired(cache, k, now))
    /\ backends' = GetBackend(backends)
    /\ UNCHANGED <<tasks, held, mx, mgr, clr, lock, stats, now, cfg, ncalls, gs>>

\* backend.set(key, value, ttl) called directly, with a new value
BackendSet(k) ==
    /\ ncalls < MaxCalls
    /\ ncalls' = ncalls + 1
    /\ LET v == [k |-> k, n |-> ncalls + 1, kind |-> "pos"] IN
       /\ cache' = DoSet(cache, k, v, cfg.ttl, now)
       /\ hist' = [hist EXCEPT ![k].set = [v |-> v, at |-> now]]
    /\ UNCHANGED <<tasks, held, mx, mgr, backends, clr, lock, stats, now, cfg, th, gs>>

\* the backend the manager hands out for the configured type
GetResult(c, k, t) ==
    IF cfg.backend = "memory" THEN DoGetResult(c, k, t)
    ELSE SqliteGetResult(c, k, t)

GetCache(c, k, t) ==
    IF cfg.backend = "memory" THEN DoGetCache(c, k, t)
    ELSE SqliteGetCache(c, k, t)

\* backend.get(key) and backend.get_with_metadata(key) called directly; an
\* exception that leaves the backend is the caller's result
BackendGet(t, k, meta) ==
    /\ th[t].pc = "idle"
    /\ LET r == GetResult(cache, k, now) IN
       th' = [th EXCEPT ![t] = [IdleCaller EXCEPT
                !.pc = "returned", !.key = k,
                !.op = IF meta THEN "get_with_metadata" ELSE "backend.get",
                !.res = r.exc,
                !.val = r.value,
                !.created_at = IF meta THEN r.created_at ELSE None]]
    /\ cache' = GetCache(cache, k, now)
    /\ hist' = Disturb(hist, k, Expired(cache, k, now))
    /\ UNCHANGED <<tasks, held, mx, mgr, backends, clr, lock, stats, now, cfg, ncalls, gs>>

ClearKeys(c, p) ==
    IF cfg.backend = "memory" THEN DoClearKeys(c, p)
    ELSE SqliteClearKeys(c, p)

\* backend.clear(pattern) called directly: the matching entries are removed
\* and their number is returned
BackendClear(t, p) ==
    /\ th[t].pc = "idle"
    /\ LET gone == ClearKeys(cache, p) IN
       /\ cache' = [k \in DOMAIN cache \ gone |-> cache[k]]
       /\ th' = [th EXCEPT ![t] = [IdleCaller EXCEPT
                    !.pc = "returned", !.op = "clear", !.pattern = p,
                    !.val = [k |-> 0, n |-> Cardinality(gone), kind |-> "count"]]]
       /\ hist' = [k \in Keys |->
                    IF k \in gone
                    THEN [hist[k] EXCEPT !.dist = TRUE,
                                         !.set = [v |-> NO_VALUE, at |-> 0]]
                    ELSE hist[k]]
    /\ UNCHANGED <<tasks, held, mx, mgr, backends, clr, lock, stats, now, cfg, ncalls, gs>>

\* the stored tuple of key k is overwritten in place with bytes that
\* pickle.loads rejects with exception e
Corrupt(k, e) ==
    /\ k \in DOMAIN cache
    /\ cache' = Put(cache, k, [pickled_value |-> <<"corrupt", e>>,
                               created_at |-> now,
                               expires_at |-> now + cfg.ttl])
    /\ UNCHANGED <<tasks, held, mx, mgr, backends, clr, lock, stats, now, cfg, th, ncalls, hist, gs>>

\* time passes
Tick ==
    /\ now < MaxTime
    /\ now' = now + 1
    /\ UNCHANGED <<tasks, held, mx, mgr, backends, clr, cache, lock, stats, cfg, th, ncalls, hist, gs>>

\* cache_clear(), first half: backend.clear(None) under the backend's lock
ClearEntries ==
    /\ clr = "idle"
    /\ clr' = "stats"
    /\ cache' = EmptyDict
    /\ hist' = [k \in Keys |->
                  [hist[k] EXCEPT !.dist = TRUE, !.set = [v |-> NO_VALUE, at |-> 0]]]
    /\ UNCHANGED <<tasks, held, mx, mgr, backends, lock, stats, now, cfg, th, ncalls, gs>>

\* a cache_clear that resets the statistics only when it removed entries
ClearStatsIfCleared ==
    /\ clr = "stats"
    /\ clr' = "idle"
    /\ stats' = IF mgr.total_cleared > 0 THEN [hits |-> 0, misses |-> 0]
              ELSE stats
    /\ mgr' = [mgr EXCEPT !.stats = IF mgr.total_cleared > 0 THEN EmptyDict
                                    ELSE @,
                          !.req = NoRequest,
                          !.made = FALSE, !.total_cleared = 0]
    /\ gs' = [hits |-> 0, inv |-> 0, racy |-> \E t \in Threads : InFlight(t)]
    /\ UNCHANGED <<tasks, held, mx, backends, cache, lock, now, cfg, th, ncalls, hist>>

\* cache_clear(), second half: manager.stats.clear() under the stats lock
ClearStats ==
    /\ clr = "stats"
    /\ clr' = "idle"
    /\ stats' = [hits |-> 0, misses |-> 0]
    /\ mgr' = [mgr EXCEPT !.stats = EmptyDict, !.req = NoRequest,
                          !.made = FALSE, !.total_cleared = 0]
    /\ gs' = [hits |-> 0, inv |-> 0, racy |-> \E t \in Threads : InFlight(t)]
    /\ UNCHANGED <<tasks, held, mx, backends, cache, lock, now, cfg, th, ncalls, hist>>

\* the steps of a call that went past the bypass check, up to its return
Steps(t) ==
    \/ FastRead(t)
    \/ HitReturn(t)
    \/ Acquire(t)
    \/ AcquireTimeout(t)
    \/ Recheck(t)
    \/ HitInGuard(t)
    \/ Miss(t)
    \/ Invoke(t)
    \/ \E kind \in {"pos", "neg", "raise"} : Finish(t, kind)
    \/ Release(t)

\* the steps of a call that went past the bypass check
Protocol(t) ==
    \/ Steps(t)
    \/ Done(t)

\* calls with keys in KS, bypass requests in Skips, overwrite requests in
\* Ows, made from the top level (0) or from inside the computations in Ps
Calls(KS, Skips, Ows, Ps) ==
    \E t \in Threads, k \in KS, skip \in Skips, ow \in Ows, p \in Ps :
        /\ ~(skip /\ ow)
        /\ Call(t, k, skip, ow, p)

\* one argument set, invalidated at any time, entries expiring
Next ==
    \/ Calls({1}, {FALSE}, {FALSE}, {0})
    \/ \E t \in Threads : Protocol(t)
    \/ Invalidate(1)
    \/ Tick

Spec == Init /\ [][Next]_vars

DefaultConfig == Config("none", "none", MaxTime + 1)

InitDefault ==
    /\ Init
    /\ cfg = DefaultConfig

\* one argument set, called plainly or with _overwrite_cache, the cache and
\* the statistics cleared at any time
NextStats ==
    \/ Calls({1}, {FALSE}, BOOLEAN, {0})
    \/ \E t \in Threads : Protocol(t)
    \/ ClearEntries
    \/ ClearStats

SpecStats == InitDefault /\ [][NextStats]_vars

\* two argument sets called concurrently
NextKeys ==
    \/ Calls(Keys, {FALSE}, {FALSE}, {0})
    \/ \E t \in Threads : Protocol(t)

SpecKeys == InitDefault /\ [][NextKeys]_vars

\* two argument sets called and invalidated at any time
NextInvalidate ==
    \/ Calls(Keys, {FALSE}, {FALSE}, {0})
    \/ \E t \in Threads : Protocol(t)
    \/ \E k \in Keys : Invalidate(k)

SpecInvalidate == InitDefault /\ [][NextInvalidate]_vars

\* one argument set, called and refreshed at any time
NextRefresh ==
    \/ Calls({1}, {FALSE}, {FALSE}, {0})
    \/ \E t \in Threads : Protocol(t)
    \/ \E t \in Threads : Refresh(t, 1)

SpecRefresh == InitDefault /\ [][NextRefresh]_vars

\* the decorator with each ttl
InitTtl ==
    /\ Init
    /\ cfg \in {Config("none", "none", ttl) : ttl \in TTLs}

\* one argument set, called and looked up at any time, entries expiring
NextGet ==
    \/ Calls({1}, {FALSE}, {FALSE}, {0})
    \/ \E t \in Threads : Protocol(t)
    \/ \E t \in Threads, d \in Defaults : GetHelper(t, 1, d)
    \/ Tick

SpecGet == InitTtl /\ [][NextGet]_vars

\* the plain decorator, and the one with a cache_if predicate
InitCacheIf ==
    /\ Init
    /\ cfg \in {DefaultConfig, Config("none", "pred", MaxTime + 1)}

\* one argument set, called plainly or with _overwrite_cache
NextOverwrite ==
    \/ Calls({1}, {FALSE}, BOOLEAN, {0})
    \/ \E t \in Threads : Protocol(t)

SpecOverwrite == InitCacheIf /\ [][NextOverwrite]_vars

\* every fixed ttl, and a ttl function; cfg.ttl is then the ttl that direct
\* sets are given
InitTtlFn ==
    /\ Start
    /\ cfg \in {Config("none", "none", ttl) : ttl \in TTLs}
                \cup {[Config("none", "none", 1) EXCEPT !.ttl_is_callable = TRUE]}

\* one argument set called and another key set directly, at any time
NextTtl ==
    \/ Calls({1}, {FALSE}, {FALSE}, {0})
    \/ \E t \in Threads : Protocol(t)
    \/ BackendSet(2)
    \/ Tick

SpecTtl == InitTtlFn /\ [][NextTtl]_vars

\* one argument set, called plainly, with the bypass, or through original
NextBypass ==
    \/ Calls({1}, BOOLEAN, {FALSE}, {0})
    \/ \E t \in Threads : Protocol(t)
    \/ \E t \in Threads, raise \in BOOLEAN : BypassReturn(t, raise)
    \/ \E t \in Threads : Original(t, 1)

SpecBypass == InitDefault /\ [][NextBypass]_vars

\* a backend used directly: sets, reads and deletes of two keys, time passing
NextBackend ==
    \/ \E k \in Keys : BackendSet(k)
    \/ \E t \in Threads, k \in Keys, meta \in BOOLEAN : BackendGet(t, k, meta)
    \/ \E t \in Threads : Done(t)
    \/ \E k \in Keys : Invalidate(k)
    \/ Tick

\* the backend types with a store of their own in one process, each ttl
Backends == {"memory", "file"}

InitBackend ==
    /\ Start
    /\ cfg \in {[Config("none", "none", ttl) EXCEPT !.backend = b] :
                    ttl \in TTLs, b \in Backends}

SpecBackend == InitBackend /\ [][NextBackend]_vars

\* a backend used directly and cleared by pattern
NextClear ==
    \/ \E k \in Keys : BackendSet(k)
    \/ \E t \in Threads, k \in Keys : BackendGet(t, k, FALSE)
    \/ \E t \in Threads, p \in Patterns : BackendClear(t, p)
    \/ \E t \in Threads : Done(t)
    \/ Tick

SpecClear == InitBackend /\ [][NextClear]_vars

\* the key strings stored in the backend under test, by their index in
\* KeyStr, and the patterns clear, keys and count are called with
GlobKeys == {1, 11, 12, 13, 14}
SelectPatterns == {NoPattern, <<"u", ":", "*">>, <<"u", "?", "1">>}

\* backend.set(KeyStr[k], value, ttl)
GlobSet(k) ==
    /\ ncalls < MaxCalls
    /\ ncalls' = ncalls + 1
    /\ cache' = DoSet(cache, k, [k |-> k, n |-> 1, kind |-> "pos"], cfg.ttl, now)
    /\ UNCHANGED <<tasks, held, mx, mgr, backends, clr, lock, stats, now, cfg, th, hist, gs>>

\* the keys that keys(pattern) of the configured backend yields
Enumerate(c, p, t) ==
    IF cfg.backend = "memory" THEN DoKeys(c, p, t) ELSE SqliteKeys(c, p, t)

\* backend.keys(pattern) run to its end, and backend.count(pattern)
BackendEnumerate(t, p, op) ==
    /\ th[t].pc = "idle"
    /\ LET sel == Enumerate(cache, p, now) IN
       th' = [th EXCEPT ![t] = [IdleCaller EXCEPT
                !.pc = "returned", !.op = op, !.pattern = p,
                !.keys = IF op = "keys" THEN sel ELSE {},
                !.val = IF op = "count"
                        THEN [k |-> 0, n |-> Cardinality(sel), kind |-> "count"]
                        ELSE NO_VALUE]]
    /\ cache' = IF cfg.backend = "memory" THEN DoKeysCache(cache, now) ELSE cache
    /\ UNCHANGED <<tasks, held, mx, mgr, backends, clr, lock, stats, now, cfg, ncalls, hist, gs>>

\* a backend holding some of the key strings, cleared, listed and counted
\* by pattern at any time
NextGlob ==
    \/ \E k \in GlobKeys : GlobSet(k)
    \/ \E p \in SelectPatterns : BackendClear(1, p)
    \/ \E p \in SelectPatterns, op \in {"keys", "count"} : BackendEnumerate(1, p, op)
    \/ Done(1)
    \/ Tick

SpecGlob == InitBackend /\ [][NextGlob]_vars

\* ------------------------------ async_wrapper over the file backend
\* await backend.aset(KeyStr[k], value, 0), by a direct user of the backend:
\* an entry that expires at once
AsyncSetExpiring(k) ==
    /\ ncalls < MaxCalls
    /\ ncalls' = ncalls + 1
    /\ cache' = DoSet(cache, k, [k |-> k, n |-> ncalls + 1, kind |-> "pos"], 0, now)
    /\ hist' = [hist EXCEPT ![k].set = [v |-> NO_VALUE, at |-> 0]]
    /\ UNCHANGED <<tasks, held, mx, mgr, backends, clr, lock, stats, now, cfg, th, gs>>

\* line 386: the memoized coroutine function is called
AsyncCall(t) ==
    /\ th[t].pc = "idle"
    /\ ncalls < MaxCalls
    /\ ncalls' = ncalls + 1
    /\ th' = [th EXCEPT ![t] = [IdleCaller EXCEPT !.pc = "a_fast", !.key = 1]]
    /\ UNCHANGED <<tasks, held, mx, mgr, backends, clr, cache, lock, stats, now, cfg, hist, gs>>

\* lines 403-408 and 413-419: aget_with_metadata (sqlite.py:411-431), which
\* leaves an expired row where it is and creates a task to delete it
\* (_schedule_async_delete), then record_hit and the return, or the way on
AsyncRead(t) ==
    /\ th[t].pc \in {"a_fast", "a_recheck"}
    /\ LET k == th[t].key
           r == SqliteGetResult(cache, k, now)
           hit == IsHit(r, cfg.validate, now)
       IN /\ tasks' = IF k \in DOMAIN cache /\ now > cache[k].expires_at
                      THEN [tasks EXCEPT ![k] = @ + 1] ELSE tasks
          /\ stats' = IF hit THEN RecordHit(stats)
                      ELSE IF th[t].pc = "a_recheck" THEN RecordMiss(stats)
                      ELSE stats
          /\ th' = IF hit
                   THEN [th EXCEPT ![t].pc = IF th[t].pc = "a_fast" THEN "returned"
                                             ELSE "a_release",
                                   ![t].val = r.value, ![t].hit = TRUE]
                   ELSE [th EXCEPT ![t].pc = IF th[t].pc = "a_fast" THEN "a_acquire"
                                             ELSE "a_compute"]
    /\ UNCHANGED <<held, mx, mgr, backends, clr, cache, lock, now, cfg, ncalls, hist, gs>>

\* lines 410-411: the mutex of the key is acquired, or the wait times out
AsyncAcquire(t) ==
    /\ th[t].pc = "a_acquire"
    /\ LET m == GetMutex(th[t].key) IN
       IF lock[m] = Free
       THEN /\ lock' = [lock EXCEPT ![m] = t]
            /\ th' = [th EXCEPT ![t].pc = "a_recheck", ![t].acq = TRUE]
       ELSE /\ lock' = lock
            /\ th' = [th EXCEPT ![t].pc = "a_recheck", ![t].tmo = TRUE]
    /\ UNCHANGED <<tasks, held, mx, mgr, backends, clr, cache, stats, now, cfg, ncalls, hist, gs>>

\* line 420: result = await fn(*args, **kwargs) returns
AsyncCompute(t) ==
    /\ th[t].pc = "a_compute"
    /\ th' = [th EXCEPT ![t].pc = "a_set", ![t].inv = @ + 1,
                        ![t].val = [k |-> th[t].key, n |-> ncalls, kind |-> "pos"]]
    /\ UNCHANGED <<tasks, held, mx, mgr, backends, clr, cache, lock, stats, now, cfg, ncalls, hist, gs>>

\* lines 422-424: await backend_inst.aset(cache_key, result, resolved_ttl),
\* INSERT OR REPLACE under _async_write_lock (sqlite.py:433-447)
AsyncSet(t) ==
    /\ th[t].pc = "a_set"
    /\ cache' = DoSet(cache, th[t].key, th[t].val, cfg.ttl, now)
    /\ hist' = [hist EXCEPT ![th[t].key].set = [v |-> th[t].val, at |-> now]]
    /\ th' = [th EXCEPT ![t].pc = "a_release"]
    /\ UNCHANGED <<tasks, held, mx, mgr, backends, clr, lock, stats, now, cfg, ncalls, gs>>

\* lines 428-430: finally: if acquired: await mutex.release()
AsyncRelease(t) ==
    /\ th[t].pc = "a_release"
    /\ lock' = IF th[t].acq THEN [lock EXCEPT ![GetMutex(th[t].key)] = Free] ELSE lock
    /\ th' = [th EXCEPT ![t].pc = "returned"]
    /\ UNCHANGED <<tasks, held, mx, mgr, backends, clr, cache, stats, now, cfg, ncalls, hist, gs>>

\* a task of _schedule_async_delete runs: DELETE FROM cache WHERE key = ?
\* under _async_write_lock
AsyncDelete(k) ==
    /\ tasks[k] > 0
    /\ tasks' = [tasks EXCEPT ![k] = @ - 1]
    /\ cache' = Del(cache, k)
    /\ UNCHANGED <<held, mx, mgr, backends, clr, lock, stats, now, cfg, th, ncalls, hist, gs>>

\* one argument set called by the coroutines of an event loop, over a file
\* backend in which an entry of the key may have expired
NextAsyncFile ==
    \/ AsyncSetExpiring(1)
    \/ \E t \in Threads : AsyncCall(t)
    \/ \E t \in Threads : AsyncRead(t)
    \/ \E t \in Threads : AsyncAcquire(t)
    \/ \E t \in Threads : AsyncCompute(t)
    \/ \E t \in Threads : AsyncSet(t)
    \/ \E t \in Threads : AsyncRelease(t)
    \/ AsyncDelete(1)
    \/ \E t \in Threads : Done(t)
    \/ Tick

SpecAsyncFile == InitDefault /\ [][NextAsyncFile]_vars

\* a backend set, read, listed and counted at any time, entries expiring
\* and stored bytes damaged
NextEnumerate ==
    \/ \E k \in Keys : BackendSet(k)
    \/ \E k \in Keys, e \in LoadErrors : Corrupt(k, e)
    \/ \E k \in Keys, meta \in BOOLEAN : BackendGet(1, k, meta)
    \/ \E p \in SelectPatterns, op \in {"keys", "count"} : BackendEnumerate(1, p, op)
    \/ Done(1)
    \/ Tick

SpecEnumerate == InitBackend /\ [][NextEnumerate]_vars

\* a backend used directly whose stored bytes are damaged at any time
NextCorrupt ==
    \/ \E k \in Keys : BackendSet(k)
    \/ \E k \in Keys, e \in LoadErrors : Corrupt(k, e)
    \/ \E t \in Threads, k \in Keys, meta \in BOOLEAN : BackendGet(t, k, meta)
    \/ \E t \in Threads : Done(t)
    \/ Tick

SpecCorrupt == InitBackend /\ [][NextCorrupt]_vars

\* ----------------------------------------------------------- the manager
\* the packages, the backend types asked for (one of them unknown to
\* _create_backend) and the ttls of the manager-level model
Pkgs == {"p", "q"}
Kinds == Backends \cup {"bogus"}
Regions == {-1, 60, 90, 3600}
BackendKeys == Pkgs \X Backends \X Regions

\* _create_backend: the database file of a file backend
FileName(pkg, ttl) ==
    IF ttl < 60 THEN <<pkg, "sec", ttl>>
    ELSE IF ttl < 3600 THEN <<pkg, "min", ttl \div 60>>
    ELSE <<pkg, "hour", ttl \div 3600>>

\* where the entries of an instance are kept: the dict of a MemoryBackend,
\* the database file of a SqliteBackend
Location(key, inst) ==
    IF key[2] = "memory" THEN <<"memory", "", "id", inst>>
    ELSE <<"file">> \o FileName(key[1], key[3])

\* the table at a location; a location never written is empty
StoreAt(stores, loc) == IF loc \in DOMAIN stores THEN stores[loc] ELSE EmptyDict

\* the stores once the instance for key is there: a new MemoryBackend starts
\* with an empty dict, a new SqliteBackend opens the file with what is in it
Opened(stores, bs, key) ==
    LET loc == Location(key, GetBackendFor(bs, key)[key]) IN
    IF key \in DOMAIN bs \/ (loc \in DOMAIN stores /\ key[2] # "memory")
    THEN stores ELSE Put(stores, loc, EmptyDict)

\* CacheManager.get_stats: (0, 0) for a function without counters
FnStats(st, name) ==
    IF name \in DOMAIN st THEN st[name] ELSE [hits |-> 0, misses |-> 0]

\* a call of the memoized function FnCalls[i], as one step: the backend is
\* looked up, an entry of the key is a hit, and otherwise the result is
\* stored and a miss recorded
MemoCall(i) ==
    LET f == Fns[FnCalls[i][1]]
        key == <<f.pkg, f.backend, TtlForBackend(f)>>
        bs == GetBackendFor(backends, key)
        loc == Location(key, bs[key])
        opened == Opened(mgr.stores, backends, key)
        table == opened[loc]
        k == i + 2
        v == [k |-> k, n |-> 1, kind |-> "pos"]
    IN
    /\ mgr.lock = Free
    /\ ncalls < MaxCalls
    /\ ncalls' = ncalls + 1
    /\ backends' = bs
    /\ IF k \in DOMAIN table
       THEN mgr' = [mgr EXCEPT
                !.stores = opened,
                !.stats = Put(@, f.name, RecordHit(FnStats(@, f.name)))]
       ELSE mgr' = [mgr EXCEPT
                !.stores = Put(opened, loc, DoSet(table, k, v, f.ttl, now)),
                !.stats = Put(@, f.name, RecordMiss(FnStats(@, f.name)))]
    /\ UNCHANGED <<tasks, held, mx, cache, lock, stats, now, cfg, th, hist, clr, gs>>

\* manager.get_backend(*key).set(KeyStr[k], ...): a backend used directly
StoreVia(key, k) ==
    LET bs == GetBackendFor(backends, key)
        loc == Location(key, bs[key])
        opened == Opened(mgr.stores, backends, key)
        v == [k |-> k, n |-> 1, kind |-> "pos"]
    IN
    /\ mgr.lock = Free
    /\ ncalls < MaxCalls
    /\ ncalls' = ncalls + 1
    /\ backends' = bs
    /\ mgr' = [mgr EXCEPT
            !.stores = Put(opened, loc, DoSet(opened[loc], k, v, key[3], now))]
    /\ UNCHANGED <<tasks, held, mx, cache, lock, stats, now, cfg, th, hist, clr, gs>>

\* get_backend, entered: the registry lock is taken
GetBackendEnter(t, key) ==
    /\ th[t].pc = "idle"
    /\ mgr.lock = Free
    /\ ncalls < MaxCalls
    /\ ncalls' = ncalls + 1
    /\ mgr' = [mgr EXCEPT !.lock = t]
    /\ th' = [th EXCEPT ![t] = [IdleCaller EXCEPT
                !.pc = "get_backend", !.op = "get_backend", !.bkey = key]]
    /\ UNCHANGED <<tasks, held, mx, backends, cache, lock, stats, now, cfg, hist, clr, gs>>

\* a get_backend that keeps the registry lock when _create_backend raises
GetBackendExitHolds(t) ==
    LET key == th[t].bkey IN
    /\ th[t].pc = "get_backend"
    /\ IF key \in DOMAIN backends \/ key[2] \in Backends
       THEN /\ backends' = GetBackendFor(backends, key)
            /\ mgr' = [mgr EXCEPT !.lock = Free,
                                  !.stores = Opened(@, backends, key)]
            /\ th' = [th EXCEPT ![t].pc = "returned",
                                ![t].inst = backends'[key]]
       ELSE /\ backends' = backends
            /\ mgr' = mgr
            /\ th' = [th EXCEPT ![t].pc = "returned", ![t].res = "ValueError"]
    /\ UNCHANGED <<tasks, held, mx, cache, lock, stats, now, cfg, ncalls, hist, clr, gs>>

\* get_backend, under the lock: the registered instance is returned, or one
\* is constructed and registered, or _create_backend raises ValueError for
\* an unknown type; the with statement releases the lock in each case
GetBackendExit(t) ==
    LET key == th[t].bkey IN
    /\ th[t].pc = "get_backend"
    /\ IF key \in DOMAIN backends \/ key[2] \in Backends
       THEN /\ backends' = GetBackendFor(backends, key)
            /\ mgr' = [mgr EXCEPT !.lock = Free,
                                  !.stores = Opened(@, backends, key)]
            /\ th' = [th EXCEPT ![t].pc = "returned",
                                ![t].inst = backends'[key]]
       ELSE /\ backends' = backends
            /\ mgr' = [mgr EXCEPT !.lock = Free]
            /\ th' = [th EXCEPT ![t].pc = "returned", ![t].res = "ValueError"]
    /\ UNCHANGED <<tasks, held, mx, cache, lock, stats, now, cfg, ncalls, hist, clr, gs>>

\* the registry lock of a path: _sync_lock for get_backend, _async_lock for
\* aget_backend
PathLock(m, op) == IF op = "get_backend" THEN m.lock ELSE m.alock

\* get_backend (lines 71-72) or aget_backend (lines 83-84), by steps: the
\* lock of the path is taken
GetBackendLock(t, key, op) ==
    /\ th[t].pc = "idle"
    /\ PathLock(mgr, op) = Free
    /\ mgr' = IF op = "get_backend" THEN [mgr EXCEPT !.lock = t]
              ELSE [mgr EXCEPT !.alock = t]
    /\ th' = [th EXCEPT ![t] = [IdleCaller EXCEPT
                !.pc = "gb_check", !.op = op, !.bkey = key]]
    /\ UNCHANGED <<tasks, held, mx, backends, cache, lock, stats, now, cfg, ncalls, hist, clr, gs>>

\* lines 73 and 85: if key not in self.backends
GetBackendCheck(t) ==
    /\ th[t].pc = "gb_check"
    /\ th' = [th EXCEPT ![t].pc = IF th[t].bkey \in DOMAIN backends
                                  THEN "gb_return" ELSE "gb_create"]
    /\ UNCHANGED <<tasks, held, mx, mgr, backends, cache, lock, stats, now, cfg, ncalls, hist, clr, gs>>

\* an object that is neither registered nor in the hands of a caller
FreshInstance ==
    LET used == Instances(backends)
                  \cup {th[u].inst : u \in Threads} \cup {th[u].made : u \in Threads}
    IN CHOOSE i \in 1..(Cardinality(used) + 1) : i \notin used

\* lines 74 and 86: self.backends[key] = self._create_backend(...)
GetBackendCreate(t) ==
    LET key == th[t].bkey
        new == FreshInstance
        loc == Location(key, new)
    IN
    /\ th[t].pc = "gb_create"
    /\ backends' = Put(backends, key, new)
    /\ mgr' = [mgr EXCEPT !.stores =
                    IF key[2] = "memory" \/ loc \notin DOMAIN @
                    THEN Put(@, loc, EmptyDict) ELSE @]
    /\ th' = [th EXCEPT ![t].pc = "gb_return", ![t].made = new]
    /\ UNCHANGED <<tasks, held, mx, cache, lock, stats, now, cfg, ncalls, hist, clr, gs>>

\* lines 75 and 87: return self.backends[key]; the lock is released
GetBackendReturn(t) ==
    /\ th[t].pc = "gb_return"
    /\ mgr' = IF th[t].op = "get_backend" THEN [mgr EXCEPT !.lock = Free]
              ELSE [mgr EXCEPT !.alock = Free]
    /\ th' = [th EXCEPT ![t].pc = "returned",
                        ![t].inst = backends[th[t].bkey]]
    /\ UNCHANGED <<tasks, held, mx, backends, cache, lock, stats, now, cfg, ncalls, hist, clr, gs>>

\* backend.clear(pattern) of an instance of the given type
ClearedTable(kind, c, p) ==
    LET gone == IF kind = "memory" THEN DoClearKeys(c, p)
                ELSE SqliteClearKeys(c, p)
    IN [k \in DOMAIN c \ gone |-> c[k]]

\* the registered instances cache_clear iterates over when backend or ttl
\* is omitted
Selected(bs, req) ==
    {x \in DOMAIN bs :
        /\ x[1] = req.pkg
        /\ req.backend = NoBackend \/ x[2] = req.backend
        /\ req.ttl = NoTtl \/ x[3] = req.ttl}

\* a cache_clear that takes every tag for None
CacheClearEntriesAnyTag(tag, backend, ttl, pkg) ==
    LET req == Request(tag, backend, ttl, pkg)
        key == <<pkg, backend, ttl>>
    IN
    /\ clr = "idle"
    /\ mgr.lock = Free
    /\ clr' = "stats"
    /\ IF backend # NoBackend /\ ttl # NoTtl
       THEN LET bs == GetBackendFor(backends, key)
                loc == Location(key, bs[key])
                opened == Opened(mgr.stores, backends, key)
            IN /\ backends' = bs
               /\ mgr' = [mgr EXCEPT !.req = req,
                      !.made = key \notin DOMAIN backends,
                      !.total_cleared = Cardinality(DOMAIN opened[loc])
                        - Cardinality(DOMAIN ClearedTable(backend, opened[loc], NoPattern)),
                      !.stores = Put(opened, loc,
                                     ClearedTable(backend, opened[loc], NoPattern))]
       ELSE LET locs == {Location(x, backends[x]) : x \in Selected(backends, req)}
            IN /\ backends' = backends
               /\ mgr' = [mgr EXCEPT !.req = req,
                      !.total_cleared = Cardinality(
                        {x \in locs \X DOMAIN KeyStr :
                            /\ x[2] \in DOMAIN StoreAt(mgr.stores, x[1])
                            /\ x[2] \notin DOMAIN ClearedTable(x[1][1],
                                    StoreAt(mgr.stores, x[1]), NoPattern)}),
                      !.stores = [l \in DOMAIN @ |->
                                    IF l \in locs
                                    THEN ClearedTable(l[1], @[l], NoPattern)
                                    ELSE @[l]]]
    /\ UNCHANGED <<tasks, held, mx, cache, lock, stats, now, cfg, th, ncalls, hist, gs>>

\* a cache_clear that never constructs an instance: it clears the
\* registered instances that pass the filter, also when backend and ttl are
\* both given
CacheClearEntriesRegistered(tag, backend, ttl, pkg) ==
    LET req == Request(tag, backend, ttl, pkg)
        pattern == TagToPattern(tag)
        locs == {Location(x, backends[x]) : x \in Selected(backends, req)}
    IN
    /\ clr = "idle"
    /\ mgr.lock = Free
    /\ clr' = "stats"
    /\ backends' = backends
    /\ mgr' = [mgr EXCEPT !.req = req,
                  !.stores = [l \in DOMAIN @ |->
                                IF l \in locs
                                THEN ClearedTable(l[1], @[l], pattern)
                                ELSE @[l]]]
    /\ UNCHANGED <<tasks, held, mx, cache, lock, stats, now, cfg, th, ncalls, hist, gs>>

\* cache_clear(tag, backend, ttl, package), first half: with backend and ttl
\* both given the instance is looked up (and constructed) and cleared;
\* otherwise the registered instances of the package that pass the filter
\* are cleared; total_cleared is the number of entries removed, made tells
\* whether get_backend constructed the instance
CacheClearEntries(tag, backend, ttl, pkg) ==
    LET req == Request(tag, backend, ttl, pkg)
        key == <<pkg, backend, ttl>>
        pattern == TagToPattern(tag)
    IN
    /\ clr = "idle"
    /\ mgr.lock = Free
    /\ clr' = "stats"
    /\ IF backend # NoBackend /\ ttl # NoTtl
       THEN LET bs == GetBackendFor(backends, key)
                loc == Location(key, bs[key])
                opened == Opened(mgr.stores, backends, key)
            IN /\ backends' = bs
               /\ mgr' = [mgr EXCEPT !.req = req,
                      !.made = key \notin DOMAIN backends,
                      !.total_cleared = Cardinality(DOMAIN opened[loc])
                        - Cardinality(DOMAIN ClearedTable(backend, opened[loc], pattern)),
                      !.stores = Put(opened, loc,
                                     ClearedTable(backend, opened[loc], pattern))]
       ELSE LET locs == {Location(x, backends[x]) : x \in Selected(backends, req)}
            IN /\ backends' = backends
               /\ mgr' = [mgr EXCEPT !.req = req,
                      !.total_cleared = Cardinality(
                        {x \in locs \X DOMAIN KeyStr :
                            /\ x[2] \in DOMAIN StoreAt(mgr.stores, x[1])
                            /\ x[2] \notin DOMAIN ClearedTable(x[1][1],
                                    StoreAt(mgr.stores, x[1]), pattern)}),
                      !.stores = [l \in DOMAIN @ |->
                                    IF l \in locs
                                    THEN ClearedTable(l[1], @[l], pattern)
                                    ELSE @[l]]]
    /\ UNCHANGED <<tasks, held, mx, cache, lock, stats, now, cfg, th, ncalls, hist, gs>>

\* CacheManager.clear(package): the instances of the package (of every
\* package for None) are closed and dropped; the dict of a dropped
\* MemoryBackend goes with it, a database file stays
ManagerClear(pkg) ==
    LET gone == {x \in DOMAIN backends : pkg = "None" \/ x[1] = pkg}
        dicts == {Location(x, backends[x]) : x \in {y \in gone : y[2] = "memory"}}
    IN
    /\ mgr.lock = Free
    /\ gone # {}
    /\ backends' = [x \in DOMAIN backends \ gone |-> backends[x]]
    /\ mgr' = [mgr EXCEPT !.stores = [l \in DOMAIN @ \ dicts |-> @[l]]]
    /\ UNCHANGED <<tasks, held, mx, cache, lock, stats, now, cfg, th, ncalls, hist, clr, gs>>

\* ------------------------------------------------------------ mutex.py
\* everything but the mutexes used directly
NonMutex ==
    <<cache, lock, stats, now, cfg, th, ncalls, hist, clr, backends, gs, mgr,
      held, tasks>>

\* the user of handle h may take a step: a thread at any time, a coroutine
\* when no other coroutine is between two awaits (inside a constructor)
MxRunnable(h) ==
    \/ mx.sched = "threads"
    \/ \A g \in Handles \ {h} : mx.h[g].pc \notin {"check", "store", "read"}

\* ThreadingMutex.__init__, line 90: with self._registry_lock;
\* AsyncioMutex.__init__ takes no lock
MxInitEnter(h, k) ==
    /\ mx.cls \in {"threading", "asyncio"}
    /\ mx.h[h].pc = "none"
    /\ MxRunnable(h)
    /\ mx.cls = "threading" => mx.rl = Free
    /\ mx' = [mx EXCEPT !.rl = IF mx.cls = "threading" THEN h ELSE @,
                        !.h[h].pc = "check", !.h[h].key = k]
    /\ UNCHANGED NonMutex

\* lines 91 and 123: if key not in self._locks
MxInitCheck(h) ==
    /\ mx.h[h].pc = "check"
    /\ MxRunnable(h)
    /\ LET absent == mx.h[h].key \notin DOMAIN mx.locks IN
       mx' = [mx EXCEPT !.h[h].seen = ~absent,
                        !.h[h].pc = IF absent THEN "store" ELSE "read"]
    /\ UNCHANGED NonMutex

\* lines 92 and 124: self._locks[key] = Lock(), a new lock object
MxInitStore(h) ==
    /\ mx.h[h].pc = "store"
    /\ MxRunnable(h)
    /\ mx' = [mx EXCEPT !.created = @ + 1,
                        !.locks = Put(@, mx.h[h].key, mx.created + 1),
                        !.h[h].pc = "read"]
    /\ UNCHANGED NonMutex

\* a constructor that gives every handle a lock of its own
MxInitReadOwn(h) ==
    /\ mx.h[h].pc = "read"
    /\ MxRunnable(h)
    /\ mx' = [mx EXCEPT !.created = @ + 1,
                        !.h[h].lock = mx.created + 1,
                        !.h[h].pc = "ready",
                        !.rl = IF mx.cls = "threading" THEN Free ELSE @]
    /\ UNCHANGED NonMutex

\* lines 93 and 125: self._lock = self._locks[key]; the with statement of
\* ThreadingMutex ends
MxInitRead(h) ==
    /\ mx.h[h].pc = "read"
    /\ MxRunnable(h)
    /\ mx' = [mx EXCEPT !.h[h].lock = mx.locks[mx.h[h].key],
                        !.h[h].pc = "ready",
                        !.rl = IF mx.cls = "threading" THEN Free ELSE @]
    /\ UNCHANGED NonMutex

\* acquire(timeout) of a handle that is not holding: the lock is unlocked
\* and is taken (lines 95-100, 127-136)
MxAcquire(h) ==
    /\ mx.cls \in {"threading", "asyncio"}
    /\ mx.h[h].pc = "ready"
    /\ ~mx.h[h].acquired
    /\ MxRunnable(h)
    /\ mx.h[h].lock \notin mx.locked
    /\ mx' = [mx EXCEPT !.locked = @ \cup {mx.h[h].lock},
                        !.h[h].acquired = TRUE, !.h[h].ret = "True"]
    /\ UNCHANGED NonMutex

\* acquire(timeout): the lock stayed locked until the timeout had elapsed
\* (lines 99-100; 133-138, where _acquired is left as it was)
MxAcquireTimeout(h) ==
    /\ mx.cls \in {"threading", "asyncio"}
    /\ mx.h[h].pc = "ready"
    /\ ~mx.h[h].acquired
    /\ MxRunnable(h)
    /\ mx.h[h].lock \in mx.locked
    /\ mx' = [mx EXCEPT !.h[h].ret = "False",
                        !.h[h].acquired = IF mx.cls = "threading" THEN FALSE
                                          ELSE @]
    /\ UNCHANGED NonMutex

\* a release that unlocks whether or not the handle holds the lock
MxReleaseAlways(h) ==
    /\ mx.cls \in {"threading", "asyncio"}
    /\ mx.h[h].pc = "ready"
    /\ MxRunnable(h)
    /\ mx' = [mx EXCEPT !.locked = @ \ {mx.h[h].lock},
                        !.h[h].acquired = FALSE, !.h[h].ret = "released"]
    /\ UNCHANGED NonMutex

\* release (lines 102-105, 140-143): if self._acquired, the lock is
\* unlocked and the flag reset; nothing happens otherwise
MxRelease(h) ==
    /\ mx.cls \in {"threading", "asyncio"}
    /\ mx.h[h].pc = "ready"
    /\ MxRunnable(h)
    /\ IF mx.h[h].acquired
       THEN mx' = [mx EXCEPT !.locked = @ \ {mx.h[h].lock},
                             !.h[h].acquired = FALSE, !.h[h].ret = "released"]
       ELSE mx' = [mx EXCEPT !.h[h].ret = "noop"]
    /\ UNCHANGED NonMutex

\* RedisMutex.__init__ (lines 162-172): the handle of key k; its token, a
\* uuid4, is taken to be unique to the handle and is written h
RedisNew(h, k) ==
    /\ mx.cls = "redis"
    /\ mx.h[h].pc = "none"
    /\ mx' = [mx EXCEPT !.h[h].pc = "ready", !.h[h].key = k]
    /\ UNCHANGED NonMutex

\* an acquire whose SET has no NX: the key is written whatever it holds
RedisAcquireSet(h) ==
    /\ mx.cls = "redis"
    /\ mx.h[h].pc = "ready"
    /\ ~mx.h[h].acquired
    /\ mx' = [mx EXCEPT !.redis = Put(@, mx.h[h].key, h),
                        !.h[h].acquired = TRUE, !.h[h].ret = "True"]
    /\ UNCHANGED NonMutex

\* RedisMutex.acquire (lines 174-186): SET key token NX EX succeeds
RedisAcquire(h) ==
    /\ mx.cls = "redis"
    /\ mx.h[h].pc = "ready"
    /\ ~mx.h[h].acquired
    /\ mx.h[h].key \notin DOMAIN mx.redis
    /\ mx' = [mx EXCEPT !.redis = Put(@, mx.h[h].key, h),
                        !.h[h].acquired = TRUE, !.h[h].ret = "True"]
    /\ UNCHANGED NonMutex

\* RedisMutex.acquire: the key stayed set until the timeout had elapsed
RedisAcquireTimeout(h) ==
    /\ mx.cls = "redis"
    /\ mx.h[h].pc = "ready"
    /\ ~mx.h[h].acquired
    /\ mx.h[h].key \in DOMAIN mx.redis
    /\ mx' = [mx EXCEPT !.h[h].ret = "False"]
    /\ UNCHANGED NonMutex

\* the server drops key k, lock_timeout seconds after it was set (EX)
RedisExpire(k) ==
    /\ mx.cls = "redis"
    /\ k \in DOMAIN mx.redis
    /\ mx' = [mx EXCEPT !.redis = Del(@, k)]
    /\ UNCHANGED NonMutex

\* a release that deletes the key whatever its value
RedisReleaseDel(h) ==
    /\ mx.cls = "redis"
    /\ mx.h[h].pc = "ready"
    /\ IF mx.h[h].acquired
       THEN mx' = [mx EXCEPT !.redis = Del(@, mx.h[h].key),
                             !.h[h].acquired = FALSE, !.h[h].ret = "deleted"]
       ELSE mx' = [mx EXCEPT !.h[h].ret = "noop"]
    /\ UNCHANGED NonMutex

\* RedisMutex.release (lines 189-192) with _RELEASE_SCRIPT (155-160): if
\* self._acquired, the key is deleted when its value is the token of the
\* handle and left alone otherwise, and the flag is reset
RedisRelease(h) ==
    /\ mx.cls = "redis"
    /\ mx.h[h].pc = "ready"
    /\ LET k == mx.h[h].key IN
       IF mx.h[h].acquired
       THEN IF k \in DOMAIN mx.redis /\ mx.redis[k] = h
            THEN mx' = [mx EXCEPT !.redis = Del(@, k),
                                  !.h[h].acquired = FALSE,
                                  !.h[h].ret = "deleted"]
            ELSE mx' = [mx EXCEPT !.h[h].acquired = FALSE,
                                  !.h[h].ret = "kept"]
       ELSE mx' = [mx EXCEPT !.h[h].ret = "noop"]
    /\ UNCHANGED NonMutex

\* handles of the process-local classes, constructed and used in any order
NextMutex ==
    \/ \E h \in Handles, k \in MKeys : MxInitEnter(h, k)
    \/ \E h \in Handles : MxInitCheck(h)
    \/ \E h \in Handles : MxInitStore(h)
    \/ \E h \in Handles : MxInitRead(h)
    \/ \E h \in Handles : MxAcquire(h)
    \/ \E h \in Handles : MxAcquireTimeout(h)
    \/ \E h \in Handles : MxRelease(h)

\* ThreadingMutex used by threads, AsyncioMutex by the coroutines of a loop
InitMutex ==
    /\ StartCore
    /\ cfg = DefaultConfig
    /\ mx \in {MxStart("threading", "threads"), MxStart("asyncio", "loop")}

SpecMutex == InitMutex /\ [][NextMutex]_vars

\* both classes with handles constructed by concurrent threads
InitMutexThreads ==
    /\ StartCore
    /\ cfg = DefaultConfig
    /\ mx \in {MxStart("threading", "threads"), MxStart("asyncio", "threads")}

SpecMutexThreads == InitMutexThreads /\ [][NextMutex]_vars

\* handles of the distributed mutex on one server, keys expiring
NextRedis ==
    \/ \E h \in Handles, k \in MKeys : RedisNew(h, k)
    \/ \E h \in Handles : RedisAcquire(h)
    \/ \E h \in Handles : RedisAcquireTimeout(h)
    \/ \E k \in MKeys : RedisExpire(k)
    \/ \E h \in Handles : RedisRelease(h)

InitRedis ==
    /\ StartCore
    /\ cfg = DefaultConfig
    /\ mx = MxStart("redis", "threads")

SpecRedis == InitRedis /\ [][NextRedis]_vars

\* ------------------------------------------------ RedisBackend, one server
\* the names of the server's keys as sequences of characters: the key of a
\* cache entry is its cache key, get_mutex(key) names its mutex lock:{key},
\* and the statistics of function fn_name are the hash cachu:stats:{fn_name}
STATS_KEY_PREFIX == <<"c", "a", "c", "h", "u", ":", "s", "t", "a", "t", "s", ":">>
StatsKey(fn_name) == STATS_KEY_PREFIX \o fn_name
MutexKey(key) == <<"l", "o", "c", "k", ":">> \o key

\* the cache keys and the function names in use on the server
RedisEntryKeys == {KeyStr[1]}
RedisFnNames == {<<"f">>}
RedisPatterns == {NoPattern, <<"*">>, <<"*", ":", "1">>, <<"u", ":", "*">>}

\* _pack_value: the creation time in front of the pickled value
PackValue(value, created_at) == <<"packed", created_at, Dumps(value)>>

\* RedisBackend.set: SETEX key ttl packed (the server drops the key when
\* the ttl has run out)
RedisSetex(key, value) ==
    /\ mx.cls = "redis"
    /\ mx' = [mx EXCEPT !.redis = Put(@, key, PackValue(value, now))]
    /\ UNCHANGED NonMutex

\* RedisBackend.incr_stat: HINCRBY cachu:stats:{fn_name} stat 1, which makes
\* the hash when it is not there (a field that is not there reads as 0)
RedisIncrStat(fn_name, stat) ==
    /\ mx.cls = "redis"
    /\ LET k == StatsKey(fn_name)
           hash == IF k \in DOMAIN mx.redis THEN mx.redis[k]
                   ELSE [hits |-> 0, misses |-> 0]
       IN /\ hash.hits + hash.misses < MaxCalls
          /\ mx' = [mx EXCEPT !.redis = Put(@, k, [hash EXCEPT ![stat] = @ + 1])]
    /\ UNCHANGED NonMutex

\* client.scan_iter(match=pattern): the keys of the server whose name
\* matches the glob-style pattern (patterns of *, ? and plain characters)
ScanIter(r, pattern) == {k \in DOMAIN r : Glob(k, pattern)}

\* RedisBackend.clear: None stands for *, and every key the scan yields is
\* deleted and counted
RedisClear(t, p) ==
    /\ mx.cls = "redis"
    /\ th[t].pc = "idle"
    /\ LET pattern == IF p = NoPattern THEN <<"*">> ELSE p
           found == ScanIter(mx.redis, pattern)
       IN /\ mx' = [mx EXCEPT !.redis = [k \in DOMAIN mx.redis \ found |-> mx.redis[k]]]
          /\ th' = [th EXCEPT ![t] = [IdleCaller EXCEPT
                       !.pc = "returned", !.op = "clear", !.pattern = p,
                       !.keys = found,
                       !.val = [k |-> 0, n |-> Cardinality(found), kind |-> "count"]]]
    /\ UNCHANGED <<tasks, held, mgr, backends, clr, cache, lock, stats, now, cfg, ncalls, hist, gs>>

\* RedisBackend.count over RedisBackend.keys: every key the scan for
\* pattern or * yields is counted
RedisCount(t, p) ==
    /\ mx.cls = "redis"
    /\ th[t].pc = "idle"
    /\ LET redis_pattern == IF p = NoPattern THEN <<"*">> ELSE p
           found == ScanIter(mx.redis, redis_pattern)
       IN th' = [th EXCEPT ![t] = [IdleCaller EXCEPT
                    !.pc = "returned", !.op = "count", !.pattern = p,
                    !.keys = found,
                    !.val = [k |-> 0, n |-> Cardinality(found), kind |-> "count"]]]
    /\ UNCHANGED <<tasks, held, mx, mgr, backends, clr, cache, lock, stats, now, cfg, ncalls, hist, gs>>

\* one server with entries, the mutexes of get_mutex and the statistics of
\* the functions, cleared and counted by pattern at any time
NextRedisStore ==
    \/ \E k \in RedisEntryKeys : RedisSetex(k, 1)
    \/ \E fn \in RedisFnNames, stat \in {"hits", "misses"} : RedisIncrStat(fn, stat)
    \/ \E h \in {1, 2}, k \in RedisEntryKeys : RedisNew(h, MutexKey(k))
    \/ \E h \in {1, 2} : RedisAcquire(h)
    \/ \E h \in {1, 2} : RedisAcquireTimeout(h)
    \/ \E h \in {1, 2} : RedisRelease(h)
    \/ \E k \in RedisEntryKeys : RedisExpire(k) \/ RedisExpire(MutexKey(k))
    \/ \E p \in RedisPatterns : RedisClear(1, p)
    \/ \E p \in RedisPatterns : RedisCount(1, p)
    \/ Done(1)

SpecRedisStore == InitRedis /\ [][NextRedisStore]_vars

\* the process-local mutexes used directly, or (cls "none") by the calls of
\* a memoized function only
InitRelease ==
    /\ StartCore
    /\ cfg = DefaultConfig
    /\ mx \in {MxStart("threading", "threads"), MxStart("asyncio", "loop"),
               MxStart("none", "threads")}

NextRelease ==
    \/ NextMutex
    \/ mx.cls = "none" /\ Calls({1}, {FALSE}, BOOLEAN, {0})
    \/ \E t \in Threads : Protocol(t)

SpecRelease == InitRelease /\ [][NextRelease]_vars

\* tagged and untagged functions sharing instances, cleared by tag
NextTag ==
    \/ \E i \in 1..6 : MemoCall(i)
    \/ \E tag \in {"", "users", "products"},
          sel \in {<<NoBackend, NoTtl>>, <<"memory", 60>>, <<"file", NoTtl>>} :
            CacheClearEntries(tag, sel[1], sel[2], "p")
    \/ ClearStats

SpecTag == InitDefault /\ [][NextTag]_vars

\* the triples and the keys used through the manager directly
StoreKeys == {<<"p", "file", 60>>, <<"p", "file", 90>>, <<"p", "memory", 60>>}
RequestKeys == {"p"} \X Kinds \X {60, 90}

\* a process that stores through backends of the manager, drops its
\* instances (what is in the database files stays, as after a restart) and
\* clears
NextManager ==
    \/ \E key \in StoreKeys, k \in {3, 6} : StoreVia(key, k)
    \/ \E i \in {1, 7} : MemoCall(i)
    \/ \E pkg \in {"None", "p"} : ManagerClear(pkg)
    \/ \E tag \in {"", "users"},
          sel \in {<<NoBackend, NoTtl>>, <<NoBackend, 60>>, <<"file", NoTtl>>,
                   <<"file", 60>>, <<"memory", 60>>} :
            CacheClearEntries(tag, sel[1], sel[2], "p")
    \/ ClearStats

SpecManager == InitDefault /\ [][NextManager]_vars

\* callers asking the manager for backends of known and unknown types,
\* storing through them, with the instances dropped in between
NextRegistry ==
    \/ \E t \in Threads, key \in RequestKeys : GetBackendEnter(t, key)
    \/ \E t \in Threads : GetBackendExit(t)
    \/ \E t \in Threads : Done(t)
    \/ \E key \in StoreKeys, k \in {3, 6} : StoreVia(key, k)
    \/ \E i \in {7, 8} : MemoCall(i)
    \/ \E pkg \in {"None", "p"} : ManagerClear(pkg)

SpecRegistry == InitDefault /\ [][NextRegistry]_vars

\* -------------------------------------------- MemoryBackend, step by step
\* the operations on the entry table and the interfaces they come through
TableOps == {"get", "set", "delete", "clear"}
Paths == {"sync", "async"}

\* memory.py:21-22: the lock of an interface
TableLock(path) == IF path = "sync" THEN "sync_lock" ELSE "async_lock"

\* the positions inside the section between taking and releasing the lock
TablePcs == {"t_get", "t_expiry", "t_del", "t_set", "t_delete", "t_clear", "t_exit"}

\* with self._sync_lock: / async with self._async_lock: of get, set, delete
\* and clear (get_with_metadata is get, keys and count only read)
TableEnter(t, op, k, path) ==
    /\ th[t].pc = "idle"
    /\ ncalls < MaxCalls
    /\ ncalls' = ncalls + 1
    /\ held[TableLock(path)] = Free
    /\ held' = [held EXCEPT ![TableLock(path)] = t]
    /\ th' = [th EXCEPT ![t] = [IdleCaller EXCEPT
                !.pc = CASE op = "get" -> "t_get" [] op = "set" -> "t_set"
                         [] op = "delete" -> "t_delete" [] op = "clear" -> "t_clear",
                !.op = op, !.key = k, !.path = path]]
    /\ UNCHANGED <<tasks, mx, mgr, backends, clr, cache, lock, stats, now, cfg, hist, gs>>

\* _do_get, lines 34-36: entry = self._cache.get(key); if entry is None
TableGet(t) ==
    /\ th[t].pc = "t_get"
    /\ th' = IF th[t].key \in DOMAIN cache
             THEN [th EXCEPT ![t].pc = "t_expiry", ![t].entry = cache[th[t].key]]
             ELSE [th EXCEPT ![t].pc = "t_exit", ![t].val = NO_VALUE]
    /\ UNCHANGED <<tasks, held, mx, mgr, backends, clr, cache, lock, stats, now, cfg, ncalls, hist, gs>>

\* _do_get, lines 38 and 42-43: if time.time() > expires_at, otherwise the
\* value is unpickled
TableGetExpiry(t) ==
    /\ th[t].pc = "t_expiry"
    /\ th' = IF now > th[t].entry.expires_at
             THEN [th EXCEPT ![t].pc = "t_del"]
             ELSE [th EXCEPT ![t].pc = "t_exit",
                             ![t].val = Loads(th[t].entry.pickled_value),
                             ![t].created_at = th[t].entry.created_at]
    /\ UNCHANGED <<tasks, held, mx, mgr, backends, clr, cache, lock, stats, now, cfg, ncalls, hist, gs>>

\* _do_get, lines 39-40: del self._cache[key], a KeyError if the key has
\* gone since it was read
TableGetDel(t) ==
    /\ th[t].pc = "t_del"
    /\ IF th[t].key \in DOMAIN cache
       THEN /\ cache' = Del(cache, th[t].key)
            /\ th' = [th EXCEPT ![t].pc = "t_exit", ![t].val = NO_VALUE]
       ELSE /\ cache' = cache
            /\ th' = [th EXCEPT ![t].pc = "t_exit", ![t].exc = "KeyError"]
    /\ UNCHANGED <<tasks, held, mx, mgr, backends, clr, lock, stats, now, cfg, ncalls, hist, gs>>

\* _do_set, _do_delete and _do_clear(None): one change of the dict each
TableWrite(t) ==
    /\ th[t].pc \in {"t_set", "t_delete", "t_clear"}
    /\ cache' = CASE th[t].pc = "t_set" ->
                       DoSet(cache, th[t].key,
                             [k |-> th[t].key, n |-> ncalls, kind |-> "pos"],
                             cfg.ttl, now)
                  [] th[t].pc = "t_delete" -> DoDelete(cache, th[t].key)
                  [] th[t].pc = "t_clear" -> EmptyDict
    /\ th' = [th EXCEPT ![t].pc = "t_exit"]
    /\ UNCHANGED <<tasks, held, mx, mgr, backends, clr, lock, stats, now, cfg, ncalls, hist, gs>>

\* the end of the with block: the lock of the interface is released
TableExit(t) ==
    /\ th[t].pc = "t_exit"
    /\ held' = [held EXCEPT ![TableLock(th[t].path)] = Free]
    /\ th' = [th EXCEPT ![t].pc = "returned"]
    /\ UNCHANGED <<tasks, mx, mgr, backends, clr, cache, lock, stats, now, cfg, ncalls, hist, gs>>

\* one backend instance used by threads and by the coroutines of an event
\* loop in another thread, entries expiring
NextTable ==
    \/ \E t \in Threads, op \in TableOps, path \in Paths : TableEnter(t, op, 1, path)
    \/ \E t \in Threads : TableGet(t)
    \/ \E t \in Threads : TableGetExpiry(t)
    \/ \E t \in Threads : TableGetDel(t)
    \/ \E t \in Threads : TableWrite(t)
    \/ \E t \in Threads : TableExit(t)
    \/ \E t \in Threads : Done(t)
    \/ Tick

SpecTable == InitTtl /\ [][NextTable]_vars

\* ------------------------------------- sync_wrapper, with its data locks
\* the steps of the wrapper that run under a data lock, and the lock of
\* each: CacheManager._sync_lock for get_backend, the backend's _sync_lock
\* for get_with_metadata and set, CacheManager._stats_lock for record_hit
\* and record_miss
Sections ==
    {"w_backend", "w_fast", "w_hit", "w_recheck", "w_hit2", "w_miss", "w_set"}

SectionLock(pc) ==
    CASE pc = "w_backend" -> "registry"
      [] pc \in {"w_fast", "w_recheck", "w_set"} -> "sync_lock"
      [] pc \in {"w_hit", "w_hit2", "w_miss"} -> "stats_lock"

\* the holder of a data lock
Holder(m, h, l) == IF l = "registry" THEN m.lock ELSE h[l]

\* the data locks caller t holds
DataLocks(t) ==
    {l \in {"registry", "sync_lock", "async_lock", "stats_lock"} :
        Holder(mgr, held, l) = t}

\* line 439: the memoized function is called
WrapperCall(t) ==
    /\ th[t].pc = "idle"
    /\ ncalls < MaxCalls
    /\ ncalls' = ncalls + 1
    /\ th' = [th EXCEPT ![t] = [IdleCaller EXCEPT !.pc = "w_backend", !.key = 1]]
    /\ UNCHANGED <<tasks, held, mx, mgr, backends, clr, cache, lock, stats, now, cfg, hist, gs>>

\* the with statement of the step the wrapper is at: its lock is taken
SectionEnter(t) ==
    /\ th[t].pc \in Sections
    /\ LET l == SectionLock(th[t].pc) IN
       /\ Holder(mgr, held, l) = Free
       /\ IF l = "registry"
          THEN mgr' = [mgr EXCEPT !.lock = t] /\ held' = held
          ELSE held' = [held EXCEPT ![l] = t] /\ mgr' = mgr
    /\ UNCHANGED <<tasks, mx, backends, clr, cache, lock, stats, now, cfg, th, ncalls, hist, gs>>

\* a with block that is left with its lock still held
SectionUnlockKeep(m, h, l) == <<m, h>>

\* the end of a with block: the lock is released
SectionUnlock(m, h, l) ==
    IF l = "registry" THEN <<[m EXCEPT !.lock = Free], h>>
    ELSE <<m, [h EXCEPT ![l] = Free]>>

\* the body of the with block of the step, and its end: get_backend (lines
\* 76-79), get_with_metadata (memory.py:100-104) and the validation of what
\* it returned, record_hit, record_miss (95-109), set (memory.py:106-110)
SectionExit(t) ==
    /\ th[t].pc \in Sections
    /\ LET pc == th[t].pc
           l == SectionLock(pc)
           k == th[t].key
           r == DoGetResult(cache, k, now)
           after == SectionUnlock(mgr, held, l)
       IN /\ Holder(mgr, held, l) = t
          /\ mgr' = after[1]
          /\ held' = after[2]
          /\ backends' = IF pc = "w_backend" THEN GetBackend(backends) ELSE backends
          /\ cache' = CASE pc \in {"w_fast", "w_recheck"} -> DoGetCache(cache, k, now)
                        [] pc = "w_set" -> DoSet(cache, k, th[t].val, cfg.ttl, now)
                        [] OTHER -> cache
          /\ stats' = CASE pc \in {"w_hit", "w_hit2"} -> RecordHit(stats)
                        [] pc = "w_miss" -> RecordMiss(stats)
                        [] OTHER -> stats
          /\ th' = CASE pc = "w_backend" -> [th EXCEPT ![t].pc = "w_fast"]
                     [] pc = "w_fast" ->
                          IF IsHit(r, cfg.validate, now)
                          THEN [th EXCEPT ![t].pc = "w_hit", ![t].val = r.value]
                          ELSE [th EXCEPT ![t].pc = "w_acquire"]
                     [] pc = "w_hit" ->
                          [th EXCEPT ![t].pc = "returned", ![t].hit = TRUE]
                     [] pc = "w_recheck" ->
                          IF IsHit(r, cfg.validate, now)
                          THEN [th EXCEPT ![t].pc = "w_hit2", ![t].val = r.value]
                          ELSE [th EXCEPT ![t].pc = "w_miss"]
                     [] pc = "w_hit2" ->
                          [th EXCEPT ![t].pc = "w_release", ![t].hit = TRUE]
                     [] pc = "w_miss" ->
                          [th EXCEPT ![t].pc = "w_compute", ![t].miss = @ + 1]
                     [] pc = "w_set" -> [th EXCEPT ![t].pc = "w_release"]
    /\ UNCHANGED <<tasks, mx, clr, lock, now, cfg, ncalls, hist, gs>>

\* lines 459-460: the mutex of the key is acquired, or the wait times out
WrapperAcquire(t) ==
    /\ th[t].pc = "w_acquire"
    /\ LET m == GetMutex(th[t].key) IN
       IF lock[m] = Free
       THEN /\ lock' = [lock EXCEPT ![m] = t]
            /\ th' = [th EXCEPT ![t].pc = "w_recheck", ![t].acq = TRUE]
       ELSE /\ lock' = lock
            /\ th' = [th EXCEPT ![t].pc = "w_recheck", ![t].tmo = TRUE]
    /\ UNCHANGED <<tasks, held, mx, mgr, backends, clr, cache, stats, now, cfg, ncalls, hist, gs>>

\* line 469: result = fn(*args, **kwargs) returns
WrapperCompute(t) ==
    /\ th[t].pc = "w_compute"
    /\ th' = [th EXCEPT ![t].pc = "w_set", ![t].inv = @ + 1,
                        ![t].val = [k |-> th[t].key, n |-> ncalls, kind |-> "pos"]]
    /\ UNCHANGED <<tasks, held, mx, mgr, backends, clr, cache, lock, stats, now, cfg, ncalls, hist, gs>>

\* lines 477-479: finally: if acquired: mutex.release()
WrapperRelease(t) ==
    /\ th[t].pc = "w_release"
    /\ lock' = IF th[t].acq THEN [lock EXCEPT ![GetMutex(th[t].key)] = Free] ELSE lock
    /\ th' = [th EXCEPT ![t].pc = "returned"]
    /\ UNCHANGED <<tasks, held, mx, mgr, backends, clr, cache, stats, now, cfg, ncalls, hist, gs>>

\* one argument set called by threads, its entry deleted and the backend
\* cleared by others at any time
NextLocks ==
    \/ \E t \in Threads : WrapperCall(t)
    \/ \E t \in Threads : SectionEnter(t)
    \/ \E t \in Threads : SectionExit(t)
    \/ \E t \in Threads : WrapperAcquire(t)
    \/ \E t \in Threads : WrapperCompute(t)
    \/ \E t \in Threads : WrapperRelease(t)
    \/ \E t \in Threads, op \in {"delete", "clear"} : TableEnter(t, op, 1, "sync")
    \/ \E t \in Threads : TableWrite(t)
    \/ \E t \in Threads : TableExit(t)
    \/ \E t \in Threads : Done(t)

SpecLocks == InitDefault /\ [][NextLocks]_vars

\* first requests for backends through get_backend, by threads, and through
\* aget_backend, by the coroutines of an event loop
NextPaths ==
    \/ \E t \in Threads, key \in StoreKeys,
          op \in {"get_backend", "aget_backend"} : GetBackendLock(t, key, op)
    \/ \E t \in Threads : GetBackendCheck(t)
    \/ \E t \in Threads : GetBackendCreate(t)
    \/ \E t \in Threads : GetBackendReturn(t)

SpecPaths == InitDefault /\ [][NextPaths]_vars

\* with or without validate and cache_if configured
InitGuard ==
    /\ Start
    /\ cfg \in {DefaultConfig, Config("accept", "pred", MaxTime + 1)}

\* one argument set, called plainly or with _overwrite_cache, with callbacks
\* and a backend that may raise inside the guarded section
NextGuard ==
    \/ Calls({1}, {FALSE}, BOOLEAN, {0})
    \/ \E t \in Threads : Protocol(t)
    \/ \E t \in Threads : RaiseValidate(t)
    \/ \E t \in Threads, at \in {"cache_if", "ttl", "set"} :
            RaiseAfterCompute(t, at)

SpecGuard == InitGuard /\ [][NextGuard]_vars

\* the steps of caller t that the scheduler and the lock timeout make happen
LiveSteps(t) ==
    \/ Steps(t)
    \/ \E raise \in BOOLEAN : BypassReturn(t, raise)

\* one call per caller, of any form, from the top level or from inside the
\* other caller's computation, with computations that may never return
NextLive ==
    \/ Calls({1}, BOOLEAN, BOOLEAN, {0} \cup Threads)
    \/ \E t \in Threads : LiveSteps(t)
    \/ \E t \in Threads : Hang(t)

\* every thread is scheduled, an acquire returns within the lock timeout, and
\* a computation that does not hang returns
SpecLive ==
    /\ InitDefault
    /\ [][NextLive]_vars
    /\ \A t \in Threads : WF_vars(LiveSteps(t))

\* ------------------------------------------------------------- properties
Returned(t) == th[t].pc = "returned"

\* nothing has removed or rejected key k's entry, no call asked to overwrite
\* it and no computation for it raised
Clean(k) == ~hist[k].dist /\ ~hist[k].raised

\* every caller that has returned for key k holds the value of the key's
\* first invocation, and there was no other invocation
OneInvocation(k) ==
    /\ hist[k].inv <= 1
    /\ \A t \in Threads :
          Returned(t) /\ th[t].key = k =>
            /\ hist[k].inv = 1
            /\ th[t].val.k = k /\ th[t].val.n = 1
            /\ \A u \in Threads :
                  Returned(u) /\ th[u].key = k => th[u].val = th[t].val

Live(k) ==
    /\ hist[k].set.v # NO_VALUE
    /\ now <= hist[k].set.at + cfg.ttl

\* the configured validate callback accepts key k's entry now
Accepts(k) ==
    \/ cfg.validate \in {"none", "accept"}
    \/ cfg.validate = "fresh" /\ now = hist[k].set.at

\* caller t performs its fast-path read in this step
FastReadStep(t) == th[t].pc = "fast" /\ th'[t].pc # "fast"

\* C2: once a set for a key has completed, a fast-path read that starts
\* later (no delete, clear or expiry in between, validate accepting) returns
\* the stored value, and the call does not invoke the computation.
C2_Visibility ==
    /\ [][\A t \in Threads :
            FastReadStep(t) /\ Live(th[t].key) /\ Accepts(th[t].key) =>
                /\ th'[t].pc = "hit"
                /\ th'[t].val = hist[th[t].key].set.v]_vars
    /\ [](\A t \in Threads :
            th[t].pc = "hit" \/ (Returned(t) /\ th[t].hit) =>
                th[t].inv = 0 /\ th[t].miss = 0)

\* a caller returned the value another caller computed and stored, having
\* read it on the fast path
C2_Witness ==
    \E t, u \in Threads :
        /\ t # u /\ Returned(t) /\ Returned(u)
        /\ th[u].inv = 1 /\ th[u].res = "pos"
        /\ th[t].hit /\ ~th[t].acq /\ ~th[t].tmo
        /\ th[t].val = th[u].val /\ th[t].val = hist[th[t].key].set.v

\* caller t performs the re-check inside the guard in this step
RecheckStep(t) == th[t].pc = "recheck" /\ th'[t].pc # "recheck"

FinishStep(t) == th[t].pc = "computing" /\ th'[t].pc = "release"

\* caller t leaves the finally clause in this step
ReleaseStep(t) == th[t].pc = "release" /\ th'[t].pc # "release"

\* C5: when the computation raises, the exception reaches the caller, no set
\* is performed (the table keeps every entry as it was), exactly one miss
\* was recorded for the call, and the mutex the call acquired is released.
C5_FailureTransparent ==
    /\ [][\A t \in Threads :
            FinishStep(t) /\ th'[t].res = "raise" => cache' = cache]_vars
    /\ [][\A t \in Threads :
            ReleaseStep(t) /\ th[t].res = "raise" =>
                /\ Returned(t)' /\ th'[t].res = "raise"
                /\ cache' = cache
                /\ th[t].acq => lock'[th[t].key] = Free]_vars
    /\ [](\A t \in Threads :
            Returned(t) /\ th[t].res = "raise" =>
                /\ th[t].miss = 1 /\ th[t].inv = 1 /\ ~th[t].hit
                /\ lock[th[t].key] # t)

\* a caller that held the mutex returned with the exception while the key had
\* an entry (stored by a caller that had timed out)
C5_Witness ==
    \E t \in Threads :
        /\ Returned(t) /\ th[t].res = "raise" /\ th[t].acq
        /\ th[t].key \in DOMAIN cache
        /\ stats.misses = 2

\* the entry a set of value v at the current time leaves
EntryOf(v) ==
    [pickled_value |-> Dumps(v), created_at |-> now, expires_at |-> now + cfg.ttl]

\* C6: a call that computed a result performs set(key, result, ttl) iff no
\* cache_if is configured or cache_if(result) is true; otherwise the table is
\* left as it was, so a rejected result is never in the cache nor served as
\* a hit, while an accepted one is.
C6_CacheIfGating ==
    /\ [][\A t \in Threads :
            FinishStep(t) /\ th'[t].res # "raise" =>
                IF cfg.cache_if = "none" \/ th'[t].res = "pos"
                THEN /\ th[t].key \in DOMAIN cache'
                     /\ cache'[th[t].key] = EntryOf(th'[t].val)
                     /\ \A k \in Keys \ {th[t].key} :
                          /\ k \in DOMAIN cache' <=> k \in DOMAIN cache
                          /\ k \in DOMAIN cache => cache'[k] = cache[k]
                ELSE cache' = cache]_vars
    /\ [](cfg.cache_if = "pred" =>
            /\ \A k \in DOMAIN cache : Loads(cache[k].pickled_value).kind = "pos"
            /\ \A t \in Threads : th[t].hit => th[t].val.kind = "pos")

\* with a predicate configured, two calls in a row computed a rejected
\* result: the second got the mutex, found nothing and recomputed
C6_Witness ==
    /\ cfg.cache_if = "pred"
    /\ 1 \notin DOMAIN cache
    /\ hist[1].tmo = 0 /\ hist[1].inv = 2
    /\ \E t, u \in Threads :
          /\ t # u /\ Returned(t) /\ Returned(u)
          /\ th[t].res = "neg" /\ th[u].res = "neg"

\* C7: a stored, non-expired entry is returned as a hit iff validate accepts
\* it (or none is configured); otherwise the call goes on as on a miss. An
\* always-false validator makes every call compute, an always-true one
\* decides as no validator does.
C7_ValidateGating ==
    /\ [][\A t \in Threads :
            LET k == th[t].key IN
            (FastReadStep(t) \/ RecheckStep(t))
              /\ k \in DOMAIN cache /\ now <= cache[k].expires_at =>
                IF \/ cfg.validate \in {"none", "accept"}
                   \/ cfg.validate = "fresh" /\ now = cache[k].created_at
                THEN /\ th'[t].pc \in {"hit", "hit2"}
                     /\ th'[t].val = Loads(cache[k].pickled_value)
                ELSE th'[t].pc \in {"acquire", "miss"}]_vars
    /\ [](cfg.validate = "reject" =>
            /\ stats.hits = 0
            /\ \A t \in Threads : Returned(t) => th[t].inv = 1 /\ ~th[t].hit)
    /\ [](\A k \in DOMAIN cache :
            LET v == Loads(cache[k].pickled_value) IN
            ValidateEntry(v, cache[k].created_at, "accept", now)
                = ValidateEntry(v, cache[k].created_at, "none", now))

\* with the always-false validator a call found the key populated and still
\* computed, without any timeout
C7_Witness ==
    /\ cfg.validate = "reject"
    /\ hist[1].tmo = 0 /\ ~hist[1].raised /\ hist[1].inv = 2
    /\ 1 \in DOMAIN cache
    /\ \E t \in Threads : Returned(t) /\ th[t].val.n = 2

\* C10: when the key is invalidated while a caller computes for it, the
\* caller's result is still stored when the computation ends, and a read of
\* the key then is a hit on that result.
C10_InvalidationRace ==
    [][\A t \in Threads :
        LET k == th[t].key IN
        FinishStep(t) /\ th[t].inval /\ th'[t].res # "raise"
          /\ (cfg.cache_if = "none" \/ th'[t].res = "pos") =>
            /\ k \in DOMAIN cache'
            /\ cache'[k] = EntryOf(th'[t].val)
            /\ cfg.validate # "reject" =>
                 /\ IsHit(DoGetResult(cache', k, now), cfg.validate, now)
                 /\ DoGetResult(cache', k, now).value = th'[t].val]_vars

\* the key was invalidated during the only computation for it, and a later
\* caller was answered from the cache with that computation's result
C10_Witness ==
    \E t, u \in Threads :
        /\ t # u /\ Returned(t) /\ Returned(u)
        /\ th[t].inval /\ th[t].inv = 1
        /\ th[u].hit /\ th[u].val = th[t].val
        /\ hist[th[t].key].inv = 1

\* caller t's computation does not terminate: it hangs, or it waits for a
\* nested call whose computation hangs
Stuck(t) ==
    \/ th[t].pc = "hung"
    \/ /\ th[t].pc \in {"computing", "bypass"}
       /\ \E c \in Threads : th[c].parent = t /\ th[c].pc = "hung"

\* caller t's acquire times out in this step
TimeoutStep(t) == th[t].pc = "acquire" /\ th'[t].tmo /\ ~th[t].tmo

\* C3: every call whose computation terminates eventually returns, also when
\* another caller holds the key's mutex for ever and when the call is made
\* from inside the computation for the same key; a caller whose acquire
\* times out goes on to the re-check and the computation without the lock,
\* and the timeout raises nothing.
C3_NeverBlocksForever ==
    /\ \A t \in Threads : InFlight(t) ~> (Returned(t) \/ Stuck(t))
    /\ [][\A t \in Threads :
            TimeoutStep(t) =>
                /\ th'[t].pc = (IF th[t].ow THEN "miss" ELSE "recheck")
                /\ ~th'[t].acq /\ th'[t].res = "none"
                /\ lock' = lock]_vars
    /\ [](\A t \in Threads :
            th[t].tmo =>
                /\ ~th[t].acq /\ lock[th[t].key] # t
                /\ th[t].res = "raise" => th[t].inv = 1)

\* a caller returned a value although the holder of the key's mutex hangs
C3_Witness ==
    \E t, u \in Threads :
        /\ th[u].pc = "hung" /\ lock[th[u].key] = u
        /\ th[t].key = th[u].key
        /\ Returned(t) /\ th[t].tmo /\ th[t].res = "pos"

\* no call is in flight
Quiescent == \A t \in Threads : ~InFlight(t)

\* every returned call has incremented exactly one of the two counters once
OneCounterPerCall ==
    \A t \in Threads :
        Returned(t) => IF th[t].hit THEN th[t].miss = 0 ELSE th[t].miss = 1

\* C8 as stated: at every quiescent point since the last reset, misses is
\* the number of invocations by the protocol and hits the number of calls
\* answered from the cache; every call increments exactly one counter once.
C8_AsStated ==
    /\ Quiescent => stats.misses = gs.inv /\ stats.hits = gs.hits
    /\ OneCounterPerCall

\* C8: at every quiescent point since the last reset, provided that reset
\* did not run while a call was in flight, misses is the number of
\* invocations by the protocol and hits the number of calls answered from
\* the cache; every call increments exactly one counter once.
C8_StatsAccurate ==
    /\ Quiescent /\ ~gs.racy => stats.misses = gs.inv /\ stats.hits = gs.hits
    /\ OneCounterPerCall

\* one miss, then two callers answered from the cache at the same time
C8_Witness ==
    /\ Quiescent /\ ~gs.racy
    /\ stats = [hits |-> 2, misses |-> 1]
    /\ \A t \in Threads : Returned(t) /\ th[t].hit

\* C9: first-time calls with distinct keys invoke the computation once per
\* key, a mutex is held only by a caller of its own key, and a caller that is
\* alone on its key never finds its mutex taken.
C9_IndependentKeys ==
    /\ \A k \in Keys :
          lock[k] # Free => th[lock[k]].key = k /\ th[lock[k]].acq
    /\ \A k \in Keys : hist[k].tmo > 0 => hist[k].n >= 2
    /\ \A k \in Keys :
          hist[k].n = 1 =>
            /\ hist[k].inv <= 1
            /\ \A t \in Threads :
                  Returned(t) /\ th[t].key = k => hist[k].inv = 1 /\ th[t].inv = 1

\* two callers with distinct keys have both computed under their own mutex
C9_Witness ==
    /\ ncalls = 2
    /\ \A k \in Keys : hist[k].n = 1 /\ hist[k].inv = 1
    /\ \A t \in Threads : Returned(t) /\ th[t].acq /\ th[t].inv = 1
    /\ th[1].key # th[2].key

\* key j has the same entry, or none, before and after the step
SameEntry(j) ==
    /\ j \in DOMAIN cache' <=> j \in DOMAIN cache
    /\ j \in DOMAIN cache => cache'[j] = cache[j]

\* C11: invalidate removes only the entry of the key derived from its
\* arguments: every other entry keeps its value and timestamps, the hit/miss
\* counters and the mutexes are unchanged, and invalidating a key without an
\* entry changes nothing.
C11_InvalidateScope ==
    [][\A k \in Keys :
        Invalidate(k) =>
            /\ k \notin DOMAIN cache'
            /\ \A j \in Keys \ {k} : SameEntry(j)
            /\ k \notin DOMAIN cache => cache' = cache
            /\ stats' = stats /\ lock' = lock]_vars

\* both keys were computed and stored, then key 1 was invalidated: its entry
\* is gone, key 2's entry is still there
C11_Witness ==
    /\ hist[1].inv = 1 /\ hist[1].dist /\ hist[1].set.v = NO_VALUE
    /\ 1 \notin DOMAIN cache
    /\ 2 \in DOMAIN cache /\ Loads(cache[2].pickled_value) = hist[2].set.v
    /\ stats = [hits |-> 0, misses |-> 2]
    /\ Quiescent

\* caller t's helper call ran with no other call of its key in flight
Alone(t) == th[t].n0 # 0 /\ hist[th[t].key].n = th[t].n0

\* key k's entry holds value v
Holds(k, v) == k \in DOMAIN cache /\ Loads(cache[k].pickled_value) = v

GetStep(t) ==
    th[t].pc = "idle" /\ th'[t].pc = "returned" /\ th'[t].op = "get"

\* C13: get never invokes the computation, never writes an entry (it may
\* only drop an expired one) and never changes the counters; it returns the
\* stored value of a non-expired entry, otherwise the supplied default (an
\* explicit None included), and raises KeyError only when there is no entry
\* and no default was supplied.
C13_GetReadOnly ==
    [][\A t \in Threads :
        LET k == th'[t].key IN
        GetStep(t) =>
            /\ stats' = stats /\ lock' = lock
            /\ gs'.inv = gs.inv /\ hist'[k].inv = hist[k].inv /\ th'[t].inv = 0
            /\ \/ cache' = cache
               \/ Expired(cache, k, now) /\ cache' = Del(cache, k)
            /\ IF Live(k)
               THEN th'[t].res = "pos" /\ th'[t].val = hist[k].set.v
               ELSE IF th'[t].arg = MISSING
                    THEN th'[t].res = "KeyError"
                    ELSE th'[t].res = "default" /\ th'[t].val = th'[t].arg]_vars

\* a get with an explicit None default found the key's entry expired and
\* returned None, while another get had returned the stored value
C13_Witness ==
    \E t, u \in Threads :
        /\ Returned(t) /\ th[t].op = "get" /\ th[t].res = "default"
        /\ th[t].val.kind = "None"
        /\ hist[th[t].key].inv = 1 /\ th[t].key \notin DOMAIN cache
        /\ Returned(u) /\ th[u].op = "get" /\ th[u].res = "pos"
        /\ th[u].val.n = 1

\* C14: a call with the overwrite request makes neither the fast-path read
\* nor the re-check, so it invokes the computation exactly once and records
\* a miss even when a valid entry exists; if cache_if passes, the entry then
\* holds the new result and a read of the key is a hit on it.
C14_Overwrite ==
    /\ [](\A t \in Threads :
            th[t].ow =>
                /\ th[t].pc \notin {"fast", "hit", "recheck", "hit2"}
                /\ ~th[t].hit
                /\ Returned(t) => th[t].inv = 1 /\ th[t].miss = 1)
    /\ [][\A t \in Threads :
            LET k == th[t].key IN
            FinishStep(t) /\ th[t].ow /\ th'[t].res # "raise"
              /\ (cfg.cache_if = "none" \/ th'[t].res = "pos") =>
                /\ k \in DOMAIN cache' /\ cache'[k] = EntryOf(th'[t].val)
                /\ IsHit(DoGetResult(cache', k, now), cfg.validate, now)
                /\ DoGetResult(cache', k, now).value = th'[t].val]_vars

\* the key had a valid entry; an overwriting call got the mutex, computed
\* again and left its own result in the entry
C14_Witness ==
    \E t \in Threads :
        /\ Returned(t) /\ th[t].ow /\ th[t].acq
        /\ cfg.cache_if = "none" /\ ~hist[th[t].key].raised
        /\ hist[th[t].key].tmo = 0
        /\ th[t].inv = 1 /\ th[t].val.n = 2
        /\ Holds(th[t].key, th[t].val)

\* caller t is in a bypassed call or in original before or after the step,
\* and the step is its own
BypassStep(t) ==
    /\ th'[t] # th[t]
    /\ th[t].pc = "bypass" \/ th'[t].pc = "bypass"

\* C15: a call with caching disabled or with the per-call bypass, and a call
\* of original, invoke the computation exactly once and return its result,
\* and leave the entries, the counters, the backend registry and the
\* mutexes unchanged.
C15_BypassUntouched ==
    /\ [][\A t \in Threads :
            BypassStep(t) =>
                /\ cache' = cache /\ stats' = stats
                /\ backends' = backends /\ lock' = lock]_vars
    /\ [](\A t \in Threads :
            Returned(t) /\ th[t].op \in {"bypass", "original"} =>
                /\ th[t].inv = 1 /\ th[t].miss = 0
                /\ ~th[t].hit /\ ~th[t].acq /\ ~th[t].tmo
                /\ th[t].val.k = th[t].key /\ th[t].val.kind = th[t].res)

\* a bypassed call and a call of original have returned their results, and
\* no backend was constructed, nothing stored and nothing counted
C15_Witness ==
    \E t, u \in Threads :
        /\ Returned(t) /\ th[t].op = "bypass" /\ th[t].res = "pos"
        /\ Returned(u) /\ th[u].op = "original" /\ th[u].res = "pos"
        /\ backends = EmptyDict /\ cache = EmptyDict
        /\ stats = [hits |-> 0, misses |-> 0]

\* caller t performs a whole direct read of the backend in this step
BackendGetStep(t) ==
    /\ th[t].pc = "idle" /\ th'[t].pc = "returned"
    /\ th'[t].op \in {"backend.get", "get_with_metadata"}

\* key k was set and not deleted since
WasSet(k) == hist[k].set.v # NO_VALUE

C17_ZeroTtlMisses ==
    [][\A t \in Threads :
        BackendGetStep(t) /\ cfg.ttl = 0 /\ WasSet(th'[t].key) =>
            th'[t].val = NO_VALUE]_vars

\* key k has an entry that is not expired and whose bytes can be loaded
Readable(k) ==
    /\ k \in DOMAIN cache
    /\ now <= cache[k].expires_at
    /\ CanLoad(cache[k].pickled_value)

\* C18: a direct read of a non-expired, readable entry returns the stored
\* value and leaves every entry (value, created_at, expires_at) as it was,
\* so repeating the read returns the same value each time.
C18_IdempotentHit ==
    [][\A t \in Threads :
        LET k == th'[t].key IN
        BackendGetStep(t) /\ Readable(k) =>
            /\ th'[t].val = Loads(cache[k].pickled_value)
            /\ th'[t].res = "none"
            /\ cache' = cache
            /\ GetResult(cache', k, now) = GetResult(cache, k, now)]_vars

\* the same entry was read twice, at its set time or later: both reads
\* returned the value set, and the entry still has the timestamps of the set
C18_Witness ==
    \E k \in Keys :
        /\ \A t \in Threads :
              /\ Returned(t) /\ th[t].key = k
              /\ th[t].op \in {"backend.get", "get_with_metadata"}
              /\ th[t].val = hist[k].set.v
        /\ WasSet(k) /\ Readable(k) /\ now > hist[k].set.at
        /\ cache[k].created_at = hist[k].set.at
        /\ cache[k].expires_at = hist[k].set.at + cfg.ttl

\* caller t performs a whole direct clear of the backend in this step
ClearStep(t) ==
    th[t].pc = "idle" /\ th'[t].pc = "returned" /\ th'[t].op = "clear"

\* the keys "u:1" (1) and "o:1" (2) that each pattern of the model matches,
\* written out by hand
Matching(p) ==
    CASE p = NoPattern -> {1, 2}
      [] p = <<"u", ":", "*">> -> {1}
      [] p = <<"*">> -> {1, 2}
      [] p = <<"?", ":", "1">> -> {1, 2}
      [] p = <<"*", ":", "2">> -> {}
      [] p = <<"o", "*", "1">> -> {2}
      [] p = <<"u", ":">> -> {}

\* C19: clear(pattern) removes exactly the entries whose key matches the
\* pattern (all entries when the pattern is None), returns the number of
\* entries it removed, and leaves every other entry with its value and
\* timestamps, so that a read of it returns what it returned before.
C19_ClearPrecision ==
    [][\A t \in Threads :
        ClearStep(t) =>
            LET gone == DOMAIN cache \cap Matching(th'[t].pattern) IN
            /\ DOMAIN cache' = DOMAIN cache \ gone
            /\ th'[t].val.n = Cardinality(gone)
            /\ \A k \in DOMAIN cache' :
                  /\ cache'[k] = cache[k]
                  /\ GetResult(cache', k, now) = GetResult(cache, k, now)]_vars

\* with both keys stored, clear("u:*") returned 1: "u:1" is gone and "o:1"
\* is still there with the value and the time of its set
C19_Witness ==
    \E t \in Threads :
        /\ Returned(t) /\ th[t].op = "clear"
        /\ th[t].pattern = <<"u", ":", "*">> /\ th[t].val.n = 1
        /\ DOMAIN cache = {2} /\ WasSet(2) /\ Readable(2)
        /\ GetResult(cache, 2, now) = Found(hist[2].set.v, hist[2].set.at)

\* key k has an entry that is not expired and whose bytes cannot be loaded
Unreadable(k) ==
    /\ k \in DOMAIN cache
    /\ now <= cache[k].expires_at
    /\ ~CanLoad(cache[k].pickled_value)

\* C20: on every backend, a direct read of an entry whose bytes cannot be
\* deserialized returns NO_VALUE without raising, deletes that entry, and
\* leaves every other entry as it was.
C20_CorruptionIsMiss ==
    [][\A t \in Threads :
        LET k == th'[t].key IN
        BackendGetStep(t) /\ Unreadable(k) =>
            /\ th'[t].val = NO_VALUE
            /\ th'[t].res = "none"
            /\ k \notin DOMAIN cache'
            /\ \A j \in DOMAIN cache \ {k} :
                  j \in DOMAIN cache' /\ cache'[j] = cache[j]]_vars

\* this step is the first half of a cache_clear
CacheClearStep == clr = "idle" /\ clr' = "stats"

\* the storage locations of the instances the cache_clear of this step
\* selects: the one named by backend and ttl, or the registered ones of the
\* package that pass the filter
SelectedLocations ==
    LET req == mgr'.req
        key == <<req.pkg, req.backend, req.ttl>>
    IN IF req.backend # NoBackend /\ req.ttl # NoTtl
       THEN {Location(key, backends'[key])}
       ELSE {Location(x, backends[x]) : x \in Selected(backends, req)}

\* the function and the argument that wrote the entry of key k
WriterOf(k) == Fns[FnCalls[k - 2][1]]
ArgOf(k) == FnCalls[k - 2][2]

TagHits(c, tag) ==
    {k \in DOMAIN c :
        \/ tag = ""
        \/ WriterOf(k).tag = tag
        \/ ArgOf(k) = "a|users|b" /\ tag = "users"}

\* table c after a clear of the given tag
TagCleared(c, tag) == [k \in DOMAIN c \ TagHits(c, tag) |-> c[k]]

AllZero(st) ==
    \A i \in 1..Len(Fns) :
        FnStats(st, Fns[i].name) = [hits |-> 0, misses |-> 0]

\* this step is the second half of a cache_clear, after which it returns
ClearStatsStep == clr = "stats" /\ clr' = "idle"

LocationOf(x) == Location(x, backends[x])

\* C24 as stated: the triples of the registry that differ in a component
\* have distinct instances, no entry stored through the instance of one
\* triple is visible through the instance of another, and the functions
\* with a callable ttl (all those of package q) use the region -1.
C24_RegistryKeying ==
    /\ \A x, y \in DOMAIN backends :
          x # y =>
            /\ backends[x] # backends[y]
            /\ LocationOf(x) = LocationOf(y) =>
                  StoreAt(mgr.stores, LocationOf(x)) = EmptyDict
    /\ \A x \in DOMAIN backends : x[1] = "q" => x[3] = -1

\* caller t leaves get_backend in this step
GetBackendReturns(t) == th[t].pc = "get_backend" /\ th'[t].pc = "returned"

\* C25: a get_backend for a type that is none of the known ones raises
\* ValueError, registers nothing under its key, leaves the registry and the
\* stores as they were and has released the registry lock; the lock is only
\* ever held by a caller inside get_backend.
C25_UnknownKind ==
    [][/\ \A t \in Threads :
            GetBackendReturns(t) /\ th[t].bkey[2] \notin Backends =>
                /\ th'[t].res = "ValueError"
                /\ th'[t].inst = 0
                /\ backends' = backends
                /\ th[t].bkey \notin DOMAIN backends'
                /\ mgr'.stores = mgr.stores
                /\ mgr'.lock = Free
       /\ mgr'.lock # Free => th'[mgr'.lock].pc = "get_backend"]_vars

\* a request for an unknown type has raised while an instance was
\* registered, which still is, and the other caller has entered get_backend
\* for a known type since
C25_Witness ==
    /\ th[1].pc = "returned" /\ th[1].res = "ValueError"
    /\ th[1].bkey[2] = "bogus"
    /\ DOMAIN backends = {<<"p", "file", 60>>}
    /\ th[2].pc = "get_backend" /\ th[2].bkey[2] = "memory"
    /\ mgr.lock = 2

\* caller t is between its acquire and the end of its finally clause
InGuard(t) ==
    th[t].pc \in {"recheck", "hit2", "miss", "invoke", "computing", "release"}

\* C26: a call that acquired the mutex of its key has released it when it
\* finishes, whether it ends with a hit of the re-check, with the computed
\* result, or with an exception of the computation, of validate, of
\* cache_if, of the ttl function or of set; a lock is therefore only held by
\* a call that is still inside its guarded section, and an acquire times
\* out only against such a call.
C26_ReleasedOnExit ==
    /\ [][\A t \in Threads :
            ReleaseStep(t) =>
                /\ Returned(t)'
                /\ th[t].acq => lock[GetMutex(th[t].key)] = t
                /\ lock'[GetMutex(th[t].key)] # t
                /\ th[t].acq => lock'[GetMutex(th[t].key)] = Free]_vars
    /\ [](\A k \in DOMAIN lock :
            lock[k] # Free =>
                /\ InGuard(lock[k])
                /\ th[lock[k]].acq
                /\ GetMutex(th[lock[k]].key) = k)
    /\ [][\A t \in Threads :
            th[t].pc = "acquire" /\ th'[t].tmo =>
                \E u \in Threads \ {t} :
                    lock[GetMutex(th[t].key)] = u /\ InGuard(u)]_vars

\* a call that had acquired the mutex has returned with the exception of a
\* failed set, and the other caller of the key holds the mutex now, acquired
\* without a timeout
C26_Witness ==
    \E t, u \in Threads :
        /\ Returned(t) /\ th[t].acq /\ th[t].exc = "set"
        /\ th[u].acq /\ ~th[u].tmo /\ lock[GetMutex(th[u].key)] = u
        /\ th[u].key = th[t].key

\* the handles constructed for key k that are in the acquired state
Holders(k) == {h \in Handles : mx.h[h].key = k /\ mx.h[h].acquired}

\* the acquire of handle h returns True, or False, in this step
AcquireTrue(h) == ~mx.h[h].acquired /\ mx'.h[h].acquired
AcquireFalse(h) ==
    mx.h[h].pc = "ready" /\ mx.h[h].ret # "False" /\ mx'.h[h].ret = "False"

C28_OneLockPerKey ==
    /\ mx.created = Cardinality(DOMAIN mx.locks)
    /\ \A h \in Handles :
          mx.h[h].pc = "ready" => mx.h[h].lock = mx.locks[mx.h[h].key]

\* the release of handle h returns in this step
MxReleaseStep(h) ==
    /\ mx.h[h].pc = "ready"
    /\ mx.h[h].ret # mx'.h[h].ret
    /\ mx'.h[h].ret \in {"released", "noop"}

\* C29: release() on a handle that is not holding the lock (never acquired,
\* timed out, released before) returns without an error and changes neither
\* the lock, which stays locked if another handle holds it, nor any other
\* handle; and a protocol call changes a lock in its finally clause only if
\* its own acquire returned True.
C29_ReleaseNoop ==
    /\ [][\A h \in Handles :
            MxReleaseStep(h) /\ ~mx.h[h].acquired =>
                /\ mx'.h[h] = [mx.h[h] EXCEPT !.ret = "noop"]
                /\ mx' = [mx EXCEPT !.h[h].ret = "noop"]]_vars
    /\ [][\A t \in Threads :
            ReleaseStep(t) =>
                /\ ~th[t].acq => lock' = lock
                /\ th[t].acq <=> ~th[t].tmo]_vars

\* a handle that timed out and one that had released before have both
\* called release while a third handle of the key holds the lock, which is
\* still locked
C29_Witness ==
    \E h, g, f \in Handles :
        /\ h # g /\ g # f /\ h # f
        /\ mx.h[h].key = mx.h[g].key /\ mx.h[g].key = mx.h[f].key
        /\ mx.h[h].ret = "noop" /\ mx.h[g].ret = "noop"
        /\ mx.h[f].acquired /\ mx.h[f].lock \in mx.locked

\* the release of handle h of the distributed mutex returns in this step
RedisReleaseStep(h) ==
    /\ mx.h[h].pc = "ready"
    /\ mx.h[h].ret # mx'.h[h].ret
    /\ mx'.h[h].ret \in {"deleted", "kept", "noop"}

\* C30: release() of a distributed mutex deletes the lock key only if the
\* key holds the token of the releasing handle; if the key has expired, or
\* holds the token of a handle that acquired it since, the release leaves
\* the server's keys and their values as they are.
C30_CompareAndDelete ==
    [][\A h \in Handles :
        RedisReleaseStep(h) =>
            LET k == mx.h[h].key IN
            IF mx.h[h].acquired /\ k \in DOMAIN mx.redis /\ mx.redis[k] = h
            THEN mx'.redis = Del(mx.redis, k)
            ELSE mx'.redis = mx.redis]_vars

\* a handle whose key had expired has released, and the key holds the token
\* of the handle that acquired it since
C30_Witness ==
    \E h, g \in Handles :
        /\ h # g /\ mx.h[h].key = mx.h[g].key
        /\ mx.h[h].ret = "kept"
        /\ mx.h[g].acquired
        /\ mx.h[g].key \in DOMAIN mx.redis /\ mx.redis[mx.h[g].key] = g

\* caller t has its backend from get_backend or aget_backend
HasBackend(t) == th[t].pc = "returned" /\ th[t].inst # 0

\* C31 as stated: whatever the interleaving of first requests for one key
\* through get_backend and aget_backend, one instance is constructed for the
\* key and every requester receives the registered one.
C31_OneInstance ==
    /\ \A t, u \in Threads :
          t # u /\ th[t].made # 0 /\ th[u].made # 0 => th[t].bkey # th[u].bkey
    /\ \A t \in Threads : HasBackend(t) => th[t].inst = backends[th[t].bkey]

\* C32: a call whose fast-path read finds a valid entry goes on to record
\* the hit and return that entry: it never acquires the mutex of the key,
\* leaves every lock as it is, and both of its steps can be taken whoever
\* holds the mutex.
C32_FastHitLockFree ==
    /\ [][\A t \in Threads :
            LET r == DoGetResult(cache, th[t].key, now) IN
            th[t].pc = "fast" /\ th'[t].pc # "fast"
              /\ IsHit(r, cfg.validate, now) =>
                /\ th'[t].pc = "hit" /\ th'[t].val = r.value
                /\ lock' = lock]_vars
    /\ [][\A t \in Threads :
            th[t].pc = "hit" /\ th'[t].pc # "hit" =>
                /\ Returned(t)' /\ th'[t].hit /\ th'[t].val = th[t].val
                /\ ~th'[t].acq /\ ~th'[t].tmo
                /\ lock' = lock]_vars
    /\ [](\A t \in Threads :
            /\ th[t].pc = "fast" => ENABLED FastRead(t)
            /\ th[t].pc = "hit" =>
                  ENABLED HitReturn(t) /\ lock[GetMutex(th[t].key)] # t)

\* a caller has found the entry on the fast path while the other caller,
\* asked to overwrite, holds the mutex of the key and is computing
C32_Witness ==
    \E t, u \in Threads :
        /\ th[t].pc = "hit" /\ th[t].key = th[u].key
        /\ th[u].pc = "computing" /\ th[u].ow
        /\ lock[GetMutex(th[u].key)] = u

\* the ttl a step writes key k with: the resolved ttl of the call that
\* finishes its computation for k, the ttl argument of a direct set
WrittenTtl(k, ttl) ==
    IF \E t \in Threads : FinishStep(t) /\ th[t].key = k
    THEN \E t \in Threads :
            FinishStep(t) /\ th[t].key = k /\ ttl = ResolvedTtl(th'[t].val)
    ELSE ttl = cfg.ttl

C34_TableSerialized ==
    /\ \A t, u \in Threads :
          th[t].pc \in TablePcs /\ th[u].pc \in TablePcs => t = u
    /\ \A t \in Threads : th[t].exc # "KeyError"

\* C35: while the wrapped computation of a call runs, its caller holds no
\* registry lock, no table lock of the backend and not the statistics lock
\* (the mutex of the key is the only lock it may hold), so a caller that is
\* about to take one of these locks for a read, a write, an invalidation or
\* a clear is not kept waiting by a computation.
C35_NoDataLockWhileComputing ==
    \A t \in Threads :
        th[t].pc = "w_compute" =>
            /\ DataLocks(t) = {}
            /\ \A u \in Threads \ {t} :
                  /\ th[u].pc \in Sections /\ DataLocks(u) = {} =>
                        ENABLED SectionEnter(u)
                  /\ th[u].pc = "idle" /\ ncalls < MaxCalls =>
                        ENABLED TableEnter(u, "clear", 1, "sync")

\* a caller is computing, holding the mutex of its key, while the other
\* caller is inside the backend's clear, holding the table lock
C35_Witness ==
    \E t, u \in Threads :
        /\ th[t].pc = "w_compute" /\ lock[GetMutex(th[t].key)] = t
        /\ th[u].pc = "t_clear" /\ held.sync_lock = u

\* the patterns of up to three characters out of letters, * and ?
PatternLengths == 0..3
PlainPatterns == UNION {[1..n -> {"u", ":", "1", "*", "?"}] : n \in PatternLengths}

\* entries that expire at this very instant
AtExpiry == {k \in DOMAIN cache : cache[k].expires_at = now}

\* fnmatch and GLOB, given what _fnmatch_to_glob makes of the pattern,
\* select the same key strings for every pattern
SameSelection ==
    \A p \in PlainPatterns, k \in GlobKeys :
        Fnmatch(KeyStr[k], p) = Glob(KeyStr[k], FnmatchToGlob(p))

C37_EnumerationAgrees ==
    \A p \in SelectPatterns, k \in Keys :
        k \in Enumerate(cache, p, now) <=>
            /\ p = NoPattern \/ Fnmatch(KeyStr[k], p)
            /\ GetResult(cache, k, now).value # NO_VALUE

\* C38: in the async path of the file backend, once the wrapper's aset of
\* a key has completed, a read of the key before the entry expires finds
\* the value that was set: no delete task scheduled by an earlier read of an
\* expired entry removes it.
C38_FreshEntryKept ==
    \A k \in Keys :
        WasSet(k) /\ now <= hist[k].set.at + cfg.ttl =>
            SqliteGetResult(cache, k, now).value = hist[k].set.v

\* C39: clear(pattern) and count(pattern) of the Redis backend, for every
\* pattern and for None, delete and count cache entries only: never the
\* lock key of a mutex that is held, never the statistics hash of a function.
C39_ClearTouchesEntriesOnly ==
    \A t \in Threads :
        th[t].pc = "returned" /\ th[t].op \in {"clear", "count"} =>
            th[t].keys \subseteq RedisEntryKeys

\* the lock entry that handle h wrote is still on the server
RedisLive(h) ==
    /\ mx.h[h].key \in DOMAIN mx.redis
    /\ mx.redis[mx.h[h].key] = h

\* C40: for one lock key of the distributed mutex, acquire returns True for
\* a handle only if the key was absent at its set-if-absent step, and the
\* key then holds the handle's token; at that step no other handle of the
\* key is acquired with its entry still on the server, and an entry on the
\* server always belongs to a handle that is acquired and not released; an
\* acquire that returns False leaves the server's keys as they were.
C40_ExclusiveWhileUnexpired ==
    /\ [][\A h \in Handles :
            ~mx.h[h].acquired /\ mx'.h[h].acquired =>
                /\ mx.h[h].key \notin DOMAIN mx.redis
                /\ mx'.h[h].ret = "True"
                /\ mx'.redis = Put(mx.redis, mx.h[h].key, h)
                /\ \A g \in Handles \ {h} :
                       mx.h[g].acquired /\ mx.h[g].key = mx.h[h].key => ~RedisLive(g)]_vars
    /\ [][\A h \in Handles :
            mx'.h[h].ret = "False" /\ mx'.h[h] # mx.h[h] =>
                /\ mx'.redis = mx.redis
                /\ ~mx'.h[h].acquired]_vars
    /\ [](\A k \in DOMAIN mx.redis :
            mx.h[mx.redis[k]].acquired /\ mx.h[mx.redis[k]].key = k)

\* one handle is acquired with its entry expired, a second one of the same
\* key is acquired with its entry on the server, and a third has timed out
C40_Witness ==
    \E h1, h2, h3 \in Handles :
        /\ h1 # h2 /\ h2 # h3 /\ h1 # h3
        /\ mx.cls = "redis"
        /\ mx.h[h1].key = mx.h[h2].key /\ mx.h[h3].key = mx.h[h2].key
        /\ mx.h[h1].acquired /\ ~RedisLive(h1)
        /\ mx.h[h2].acquired /\ RedisLive(h2)
        /\ ~mx.h[h3].acquired /\ mx.h[h3].ret = "False"

====
